---- MODULE Spec2Model ----
(***************************************************************************)
(* Session versioning and project-context resolution of the Context        *)
(* Engine core: SessionManager.saveSession, ProjectManager and the         *)
(* relational store (PostgreSQL, READ COMMITTED) they write to.            *)
(*                                                                         *)
(* The store is modelled by its committed tables plus, per open            *)
(* transaction, the rows that transaction has written and not yet          *)
(* committed.  Statements sent through the pool (db.query) run in          *)
(* autocommit mode and see only committed rows; statements sent through a  *)
(* transaction client see committed rows and that transaction's own rows.  *)
(***************************************************************************)
EXTENDS Integers, Sequences, FiniteSets, TLC

(***************************************************************************)
(* JSON values.  An object is a sequence of <<key, value>> pairs in        *)
(* insertion order, as a JavaScript object keeps its own properties.       *)
(***************************************************************************)
JBool(b) == [t |-> "bool", b |-> b]
JStr(s) == [t |-> "str", s |-> s]
JArr(a) == [t |-> "arr", a |-> a]
JObj(o) == [t |-> "obj", o |-> o]
JUndefined == [t |-> "undefined"]
JNull == [t |-> "null"]

ObjKeys(o) == [i \in DOMAIN o |-> o[i][1]]

ObjHas(o, k) == \E i \in DOMAIN o : o[i][1] = k

ObjGet(o, k) ==
  IF ObjHas(o, k) THEN o[CHOOSE i \in DOMAIN o : o[i][1] = k][2] ELSE JUndefined

\* obj[k] = v : an existing property keeps its position, a new one is appended
ObjSet(o, k, v) ==
  IF ObjHas(o, k)
  THEN [i \in DOMAIN o |-> IF o[i][1] = k THEN <<k, v>> ELSE o[i]]
  ELSE Append(o, <<k, v>>)

\* JavaScript truthiness of a JSON value
Truthy(j) ==
  CASE j.t = "undefined" -> FALSE
    [] j.t = "bool" -> j.b
    [] j.t = "str" -> j.s # ""
    [] OTHER -> TRUE

\* value.prop with optional chaining: undefined when value is not an object
Prop(j, k) == IF j.t = "obj" THEN ObjGet(j.o, k) ELSE JUndefined

\* Every property name of the model, in the order Array.prototype.sort gives
\* (UTF-16 code unit order).
SortedNames ==
  << "@react-native", "@types/react", "angular", "build", "compilerOptions",
     "dependencies", "devDependencies", "dev_packages", "django", "electron",
     "express", "fastapi", "fastify", "flask", "jest", "mocha", "nodejs",
     "npm:install", "npm_packages", "python_packages", "react", "scripts",
     "strict", "target", "tsconfig", "typescript_target", "vitest", "vue" >>

\* the keys in the order the object holds them
SortKeysAsGiven(keys) == keys

\* keys.sort() for a sequence of distinct property names
SortKeys(keys) ==
  SelectSeq(SortedNames, LAMBDA n : \E i \in DOMAIN keys : keys[i] = n)

(***************************************************************************)
(* JSON.stringify(value, allowList): with an array as replacer, every      *)
(* object at every depth keeps only the properties named in the list, in   *)
(* the order of the list; array elements are all kept.  The result stands  *)
(* for the produced text: two values give the same text exactly when they  *)
(* give the same result here.                                              *)
(***************************************************************************)
RECURSIVE StringifyWith(_, _)
StringifyWith(j, allowList) ==
  CASE j.t = "obj" ->
         LET present == SelectSeq(allowList, LAMBDA k : ObjHas(j.o, k))
         IN  JObj([i \in DOMAIN present |->
                    <<present[i], StringifyWith(ObjGet(j.o, present[i]), allowList)>>])
    [] j.t = "arr" -> JArr([i \in DOMAIN j.a |-> StringifyWith(j.a[i], allowList)])
    [] OTHER -> j

(***************************************************************************)
(* The value a jsonb column holds for JSON.stringify(value): jsonb keeps   *)
(* every property and orders the keys itself.                              *)
(***************************************************************************)
RECURSIVE ToJsonb(_)
ToJsonb(j) ==
  CASE j.t = "obj" ->
         LET ks == SortKeys(ObjKeys(j.o))
         IN  JObj([i \in DOMAIN ks |-> <<ks[i], ToJsonb(ObjGet(j.o, ks[i]))>>])
    [] j.t = "arr" -> JArr([i \in DOMAIN j.a |-> ToJsonb(j.a[i])])
    [] OTHER -> j

(***************************************************************************)
(* The universe of file paths and texts.  A text is known by the           *)
(* recognised substrings it contains, by what JSON.parse makes of it and   *)
(* by its non-blank lines; nothing else of a text is inspected by the      *)
(* code modelled here.  A file content is either such a text or the        *)
(* summary that createSyntheticFile builds around the conversation.        *)
(***************************************************************************)
Text(s) == [text |-> s]

IsText(c) == "text" \in DOMAIN c

\* path.split('.').pop()?.toLowerCase()
Ext(path) ==
  CASE path = "a.ts" -> "ts"
    [] path = "App.JSX" -> "jsx"
    [] path = "b.py" -> "py"
    [] path = "package.json" -> "json"
    [] path = "tsconfig.json" -> "json"
    [] path = "app.config.json" -> "json"
    [] path = "data.json" -> "json"
    [] path = "notes.MD" -> "md"
    [] path = "requirements.txt" -> "txt"
    [] path = "Cargo.toml" -> "toml"
    [] path = "go.mod" -> "mod"
    [] path = "README.md" -> "md"
    [] path = "CONVERSATION_SUMMARY.md" -> "md"
    [] path = "Dockerfile" -> "dockerfile"
    [] OTHER -> ""

\* the recognised substrings that occur in a text (String.prototype.includes)
SubstringsOf(s) ==
  CASE s = "src_plain" -> {}
    [] s = "src_react" -> {"import React"}
    [] s = "src_node" -> {"require(", "const express"}
    [] s = "src_vue" -> {"from \"vue\""}
    [] s = "src_flask" -> {"from flask"}
    [] s = "src_django" -> {"import django"}
    [] s = "cargo_axum" -> {"axum"}
    [] s = "cargo_plain" -> {}
    [] s = "gomod_gin" -> {"github.com/gin-gonic"}
    [] s = "django==4.2" -> {"django"}
    [] s = "flask>=2" -> {"flask"}
    [] s = "requests" -> {}
    [] s = "npm:install" -> {"npm"}
    [] s = "build" -> {}
    [] OTHER -> {}

StrIncludes(s, sub) == sub \in SubstringsOf(s)

\* content.includes(sub); a summary contains what its messages contain
Includes(c, sub) ==
  IF IsText(c) THEN StrIncludes(c.text, sub)
  ELSE \E i \in DOMAIN c.messages : StrIncludes(c.messages[i].content, sub)

\* content.toLowerCase(): every other text of the model is lower case already
ToLowerCase(c) ==
  IF IsText(c) /\ c.text = "cargo_AXUM" THEN Text("cargo_axum") ELSE c

\* content.split('\n').filter(line => line.trim())
NonBlankLines(c) ==
  LET s == IF IsText(c) THEN c.text ELSE "summary"
  IN  CASE s = "req_django" -> <<"django==4.2", "requests">>
        [] s = "req_flask" -> <<"flask>=2">>
        [] s = "req_plain" -> <<"requests">>
        [] OTHER -> IF s = "" THEN << >> ELSE <<s>>

JInvalid == [t |-> "invalid"]

\* JSON.parse(content); JInvalid stands for the SyntaxError it throws
JSONparseText(s) ==
  CASE s = "pkg_express" ->
         JObj(<< <<"dependencies", JObj(<< <<"express", JStr("4") >> >>)>>,
                 <<"devDependencies", JObj(<< <<"jest", JStr("29") >> >>)>>,
                 <<"scripts", JObj(<< <<"npm:install", JStr("npm i") >> >>)>> >>)
    [] s = "pkg_react" ->
         JObj(<< <<"devDependencies", JObj(<< <<"vitest", JStr("1") >> >>)>>,
                 <<"dependencies", JObj(<< <<"react", JStr("18") >> >>)>>,
                 <<"scripts", JObj(<< <<"build", JStr("tsc") >> >>)>> >>)
    [] s = "pkg_empty" -> JObj(<< >>)
    [] s = "json_null" -> JNull
    [] s = "tsc_strict" ->
         JObj(<< <<"compilerOptions",
                   JObj(<< <<"target", JStr("es2020")>>, <<"strict", JBool(TRUE)>> >>)>> >>)
    [] s = "tsc_loose" ->
         JObj(<< <<"compilerOptions",
                   JObj(<< <<"strict", JBool(FALSE)>>, <<"target", JStr("es2020")>> >>)>> >>)
    [] s = "tsc_es5" ->
         JObj(<< <<"compilerOptions", JObj(<< <<"target", JStr("es5")>> >>)>> >>)
    [] OTHER -> JInvalid

JSONparse(c) == IF IsText(c) THEN JSONparseText(c.text) ELSE JInvalid

\* Object.keys(value || {}) as a JSON array of strings
KeysOrEmpty(j) ==
  IF j.t = "obj" THEN JArr([i \in DOMAIN j.o |-> JStr(j.o[i][1])]) ELSE JArr(<< >>)

NULL == "NULL"

\* Set.prototype.add on a set kept in insertion order
SetAdd(seq, x) == IF \E i \in DOMAIN seq : seq[i] = x THEN seq ELSE Append(seq, x)

(***************************************************************************)
(* ProjectManager.detectTechStack: one pass over the files.  The           *)
(* accumulator holds the five local variables of the function.             *)
(***************************************************************************)
DetectInit ==
  [tech_stack |-> << >>, programming_languages |-> << >>,
   project_type |-> "other", build_system |-> NULL, test_framework |-> NULL]

\* tech_stack[k] = true when the pattern was found
SetIf(found, o, k) == IF found THEN ObjSet(o, k, JBool(TRUE)) ELSE o

\* lines 39-62: what a script file with these findings assigns
ScriptFacts(acc, language, isReact, isNode, isVue, isAngular) ==
  [acc EXCEPT
     !.programming_languages = SetAdd(@, language),
     !.tech_stack =
        SetIf(isAngular, SetIf(isVue, SetIf(isNode, SetIf(isReact, @, "react"),
                                            "nodejs"), "vue"), "angular"),
     !.project_type = IF isReact \/ isVue \/ isAngular THEN "web-app" ELSE @]

\* lines 38-63
DetectScript(acc, file) ==
  IF Ext(file.path) \in {"ts", "tsx", "js", "jsx"}
  THEN ScriptFacts(acc,
         IF Ext(file.path) \in {"ts", "tsx"} THEN "typescript" ELSE "javascript",
         Includes(file.content, "import React") \/ Includes(file.content, "from \"react\"")
           \/ Includes(file.content, "from 'react'"),
         Includes(file.content, "require(") \/ Includes(file.content, "module.exports")
           \/ Includes(file.content, "const express"),
         Includes(file.content, "import { createApp }")
           \/ Includes(file.content, "from \"vue\""),
         Includes(file.content, "@angular/core") \/ Includes(file.content, "NgModule"))
  ELSE acc

\* lines 67-82: what a Python file with these findings assigns
PythonFacts(acc, isFlask, isDjango, isFastapi) ==
  [acc EXCEPT
     !.programming_languages = SetAdd(@, "python"),
     !.tech_stack = SetIf(isFastapi, SetIf(isDjango, SetIf(isFlask, @, "flask"),
                                           "django"), "fastapi"),
     !.project_type = IF isFastapi THEN "api-service"
                      ELSE IF isDjango THEN "web-app"
                      ELSE IF isFlask THEN "api-service" ELSE @]

\* lines 66-83
DetectPython(acc, file) ==
  IF Ext(file.path) = "py"
  THEN PythonFacts(acc,
         Includes(file.content, "import flask") \/ Includes(file.content, "from flask"),
         Includes(file.content, "import django") \/ Includes(file.content, "from django"),
         Includes(file.content, "import fastapi") \/ Includes(file.content, "from fastapi"))
  ELSE acc

\* line 96: scripts.some(s => s.includes('npm') || ...)
UsesPackageManager(scriptNames) ==
  \E i \in DOMAIN scriptNames :
    \/ StrIncludes(scriptNames[i].s, "npm")
    \/ StrIncludes(scriptNames[i].s, "yarn")
    \/ StrIncludes(scriptNames[i].s, "pnpm")

\* lines 90-124
PackageFacts(acc, deps, devDeps, scripts) ==
  [acc EXCEPT
     !.tech_stack = ObjSet(ObjSet(@, "npm_packages", KeysOrEmpty(deps)),
                           "dev_packages", KeysOrEmpty(devDeps)),
     !.build_system =
        IF Truthy(scripts) /\ UsesPackageManager(KeysOrEmpty(scripts).a) THEN "npm" ELSE @,
     !.test_framework =
        IF ~Truthy(devDeps) THEN @
        ELSE IF Truthy(Prop(devDeps, "jest")) \/ Truthy(Prop(devDeps, "@jest/core"))
             THEN "jest"
        ELSE IF Truthy(Prop(devDeps, "vitest")) THEN "vitest"
        ELSE IF Truthy(Prop(devDeps, "mocha")) THEN "mocha"
        ELSE IF Truthy(Prop(devDeps, "pytest")) THEN "pytest"
        ELSE @,
     !.project_type =
        IF Truthy(Prop(deps, "express")) \/ Truthy(Prop(deps, "fastify"))
           THEN "api-service"
        ELSE IF Truthy(Prop(deps, "react")) \/ Truthy(Prop(deps, "@types/react"))
           THEN "web-app"
        ELSE IF Truthy(Prop(deps, "electron")) THEN "desktop-app"
        ELSE IF Truthy(Prop(deps, "react")) \/ Truthy(Prop(deps, "@react-native"))
           THEN "mobile-app"
        ELSE @]

\* a package.json that cannot be read undoes what the files before it gave
ParsedPackageReset(acc, packageData) ==
  IF packageData.t \in {"invalid", "null"} THEN DetectInit
  ELSE PackageFacts(acc, Prop(packageData, "dependencies"),
                    Prop(packageData, "devDependencies"), Prop(packageData, "scripts"))

\* lines 87-127; a null document makes packageData.dependencies throw, which
\* the catch swallows before anything was assigned
ParsedPackage(acc, packageData) ==
  IF packageData.t \in {"invalid", "null"} THEN acc
  ELSE PackageFacts(acc, Prop(packageData, "dependencies"),
                    Prop(packageData, "devDependencies"), Prop(packageData, "scripts"))

\* lines 86-128
DetectPackageJson(acc, file) ==
  IF file.path = "package.json" THEN ParsedPackage(acc, JSONparse(file.content)) ELSE acc

\* lines 134-138
TsconfigTarget(o, target) ==
  IF Truthy(target) THEN ObjSet(o, "typescript_target", target) ELSE o

\* lines 132-141; for a null document the assignment of tech_stack.tsconfig
\* is done before tsConfig.compilerOptions throws
ParsedTsconfig(acc, tsConfig) ==
  IF tsConfig.t = "invalid" THEN acc
  ELSE [acc EXCEPT
          !.tech_stack =
             TsconfigTarget(ObjSet(@, "tsconfig", tsConfig),
                            Prop(Prop(tsConfig, "compilerOptions"), "target"))]

\* lines 131-142
DetectTsconfig(acc, file) ==
  IF file.path = "tsconfig.json" THEN ParsedTsconfig(acc, JSONparse(file.content)) ELSE acc

\* dependencies.some(dep => dep.includes(sub))
SomeIncludes(dependencies, sub) ==
  \E i \in DOMAIN dependencies : StrIncludes(dependencies[i], sub)

\* lines 146-154
RequirementsFacts(acc, dependencies) ==
  [acc EXCEPT
     !.programming_languages = SetAdd(@, "python"),
     !.tech_stack =
        ObjSet(@, "python_packages",
               JArr([i \in DOMAIN dependencies |-> JStr(dependencies[i])])),
     !.project_type =
        IF SomeIncludes(dependencies, "django") THEN "web-app"
        ELSE IF SomeIncludes(dependencies, "flask") \/ SomeIncludes(dependencies, "fastapi")
             THEN "api-service"
        ELSE @]

\* lines 145-155
DetectRequirements(acc, file) ==
  IF file.path = "requirements.txt"
  THEN RequirementsFacts(acc, NonBlankLines(file.content))
  ELSE acc

\* lines 159-167
CargoFacts(acc, cargoContent) ==
  [acc EXCEPT
     !.programming_languages = SetAdd(@, "rust"),
     !.project_type = IF Includes(cargoContent, "axum") THEN "api-service"
                      ELSE IF Includes(cargoContent, "yew") THEN "web-app"
                      ELSE "cli-tool"]

\* lines 158-168
DetectCargo(acc, file) ==
  IF file.path = "Cargo.toml" THEN CargoFacts(acc, ToLowerCase(file.content)) ELSE acc

\* lines 171-174
DetectGoMod(acc, file) ==
  IF file.path = "go.mod"
  THEN [acc EXCEPT
          !.programming_languages = SetAdd(@, "go"),
          !.project_type = IF Includes(file.content, "github.com/gin-gonic")
                           THEN "api-service" ELSE "cli-tool"]
  ELSE acc

DetectFile(acc, file) ==
  DetectGoMod(DetectCargo(DetectRequirements(DetectTsconfig(
    DetectPackageJson(DetectPython(DetectScript(acc, file), file), file), file), file), file), file)

RECURSIVE DetectLoop(_, _)
DetectLoop(acc, files) ==
  IF files = << >> THEN acc ELSE DetectLoop(DetectFile(acc, Head(files)), Tail(files))

\* programming_languages.has(language)
Has(languages, language) == \E i \in DOMAIN languages : languages[i] = language

\* the default given to every project with a script or Python language
DefaultProjectTypeAlways(acc) ==
  [acc EXCEPT
     !.project_type =
        IF \/ Has(acc.programming_languages, "typescript")
           \/ Has(acc.programming_languages, "javascript")
           \/ Has(acc.programming_languages, "python")
        THEN "cli-tool" ELSE @]

\* lines 177-184: the default project type
DefaultProjectType(acc) ==
  [acc EXCEPT
     !.project_type =
        IF @ = "other" /\ (\/ Has(acc.programming_languages, "typescript")
                           \/ Has(acc.programming_languages, "javascript")
                           \/ Has(acc.programming_languages, "python"))
        THEN "cli-tool" ELSE @]

detectTechStack(files) == DefaultProjectType(DetectLoop(DetectInit, files))

\* ProjectManager.calculateContextHash; the digest of a text is modelled by the
\* text itself (SHA-256 taken as collision free)
calculateContextHash(tech_stack) ==
  StringifyWith(JObj(tech_stack), SortKeys(ObjKeys(tech_stack)))

(***************************************************************************)
(* Bounds and inputs                                                       *)
(***************************************************************************)
\* total number of saveSession calls started in a behaviour
MaxSaves == 3

\* total number of statements the store fails for reasons of its own
MaxFailures == 1

\* requests served at the same time
Procs == {1, 2}

File(path, content) == [path |-> path, content |-> content]
Msg(role, content) == [role |-> role, content |-> content]

Request(userId, name, project, fileList, conv, description) ==
  [userId |-> userId,
   input |-> [session_name |-> name, project_name |-> project, files |-> fileList,
              conversation |-> conv, description |-> description]]

(***************************************************************************)
(* State                                                                   *)
(***************************************************************************)
VARIABLES
  sessions,                   \* committed rows of table sessions
  files,                      \* committed rows of table files
  conversations,              \* committed rows of table conversations
  project_contexts,           \* committed rows of table project_contexts
  project_context_snapshots,  \* committed rows of table project_context_snapshots
  nSaves,                     \* saveSession calls started so far
  nFailures,                  \* store failures so far
  sv,                         \* per request: the locals of its saveSession call
  returned,                   \* the result or error most recently handed to a caller
  committedInputs             \* history: the input of every committed save, by session id

vars == <<sessions, files, conversations, project_contexts,
          project_context_snapshots, nSaves, nFailures, sv, returned, committedInputs>>

tables == <<sessions, files, conversations, project_contexts, project_context_snapshots>>

NoId == 0

\* the locals of a saveSession call; the tx... fields hold the rows its
\* transaction has written, ctxPending the row the context transaction has
Idle ==
  [pc |-> "idle", id |-> NoId, userId |-> "", input |-> << >>,
   snapshotReason |-> "auto",
   ctxFound |-> FALSE, ctxPending |-> {}, projectContextId |-> NoId,
   nextVersion |-> 0, snapshotId |-> NoId, newVersion |-> 0,
   txSessions |-> {}, txFiles |-> {}, txConversations |-> {},
   txContexts |-> {}, txSnapshots |-> {},
   i |-> 0, error |-> "none"]

\* a catch block that drops the rows written so far and runs the callback of
\* the transaction again from the read of the version
ThrownRetried(me, pc, error) ==
  [me EXCEPT !.pc = "readVersion", !.ctxPending = {},
             !.txSessions = {}, !.txFiles = {}, !.txConversations = {},
             !.txContexts = {}, !.txSnapshots = {}, !.i = 0]

\* a statement has thrown (the error names the violated constraint): what is
\* left of the call is its open transactions
Thrown(me, pc, error) ==
  [Idle EXCEPT !.pc = pc, !.id = me.id, !.error = error,
               !.ctxPending = me.ctxPending,
               !.txSessions = me.txSessions, !.txFiles = me.txFiles,
               !.txConversations = me.txConversations,
               !.txContexts = me.txContexts, !.txSnapshots = me.txSnapshots]

\* what the caller of the save with this id gets: the status and version of
\* SaveContextOutput, or the error thrown
Result(id, status, version, error) ==
  [id |-> id, status |-> status, version |-> version, error |-> error]

Init ==
  /\ sessions = {}
  /\ files = {}
  /\ conversations = {}
  /\ project_contexts = {}
  /\ project_context_snapshots = {}
  /\ nSaves = 0
  /\ nFailures = 0
  /\ sv = [p \in Procs |-> Idle]
  /\ returned = Result(NoId, "none", 0, "none")
  /\ committedInputs = << >>

Max(S) == CHOOSE x \in S : \A y \in S : y <= x

\* SessionManager.createSyntheticFile: the text embeds the last ten messages
\* and the metadata of the input
createSyntheticFile(input) ==
  LET n == Len(input.conversation)
      recentMessages == SubSeq(input.conversation, IF n > 10 THEN n - 9 ELSE 1, n)
  IN  File("CONVERSATION_SUMMARY.md",
           [session |-> input.session_name, project |-> input.project_name,
            metadata |-> input.description, messages |-> recentMessages])

\* the synthetic file added to every file list
normalizedFilesWithSummary(input) == input.files \o <<createSyntheticFile(input)>>

\* lines 40-42
normalizedFiles(input) ==
  IF Len(input.files) > 0 THEN input.files ELSE <<createSyntheticFile(input)>>

Set(p, fields) == [sv EXCEPT ![p] = fields]

\* Requests carry no identity of their own.  The calls in flight are kept in
\* the order in which they started: when a call ends, the later ones move up.
InFlight(s) == {q \in Procs : s[q].pc # "idle"}

Rank(s, q) == Cardinality({r \in InFlight(s) : s[r].id <= s[q].id})

Ended(p) ==
  [q \in Procs |->
     IF q <= Cardinality(InFlight(sv) \ {p})
     THEN sv[CHOOSE r \in InFlight(sv) \ {p} : Rank(Set(p, Idle), r) = q]
     ELSE Idle]

(***************************************************************************)
(* saveSession, lines 39-54: normalise the files, take a pooled client and *)
(* BEGIN the save's transaction.                                           *)
(***************************************************************************)
Free(p) == sv[p].pc = "idle"

\* requests carry no identity: a new call takes the lowest free slot
StartSave(p, req) ==
  /\ Free(p)
  /\ \A q \in Procs : q < p => ~Free(q)
  /\ nSaves < MaxSaves
  /\ nSaves' = nSaves + 1
  /\ sv' = Set(p, [Idle EXCEPT
                     !.pc = IF req.userId # "" /\ req.input.project_name # ""
                            THEN "getProjectContext" ELSE "readVersion",
                     !.id = nSaves + 1,
                     !.userId = req.userId,
                     !.input = req.input])
  /\ UNCHANGED <<tables, nFailures, returned, committedInputs>>

(***************************************************************************)
(* lines 62-76: read the active context through the pool, detect the tech  *)
(* stack of the files and decide the snapshot reason.                      *)
(***************************************************************************)
ActiveContexts(rows, userId, project) ==
  {c \in rows : c.user_id = userId /\ c.project_name = project /\ c.is_active}

\* line 69 written with optional chaining instead of the test for an
\* existing context: existingContext?.context_hash !== currentContextHash
GetProjectContextUnguarded(p) ==
  LET me == sv[p]
      found == ActiveContexts(project_contexts, me.userId, me.input.project_name)
      currentContextHash ==
        calculateContextHash(detectTechStack(normalizedFiles(me.input)).tech_stack)
      existingHash == IF found = {} THEN JUndefined ELSE (CHOOSE c \in found : TRUE).context_hash
  IN  /\ me.pc = "getProjectContext"
      /\ sv' = Set(p, [me EXCEPT
                         !.pc = "ctxSelect",
                         !.snapshotReason =
                            IF existingHash # currentContextHash
                            THEN "tech-change" ELSE "auto"])
      /\ UNCHANGED <<tables, nSaves, nFailures, returned, committedInputs>>

GetProjectContext(p) ==
  LET me == sv[p]
      found == ActiveContexts(project_contexts, me.userId, me.input.project_name)
      currentContextHash ==
        calculateContextHash(detectTechStack(normalizedFiles(me.input)).tech_stack)
      existingHash == IF found = {} THEN JNull ELSE (CHOOSE c \in found : TRUE).context_hash
  IN  /\ me.pc = "getProjectContext"
      /\ sv' = Set(p, [me EXCEPT
                         !.pc = "ctxSelect",
                         !.snapshotReason =
                            IF found # {} /\ existingHash # currentContextHash
                            THEN "tech-change" ELSE "auto"])
      /\ UNCHANGED <<tables, nSaves, nFailures, returned, committedInputs>>

(***************************************************************************)
(* createOrUpdateProjectContext, lines 219-281.  It runs in a transaction  *)
(* of its own, on a second pooled client (this.db.transaction), not in the *)
(* transaction of the save.                                                *)
(***************************************************************************)
ContextsOf(rows, userId, project) ==
  {c \in rows : c.user_id = userId /\ c.project_name = project}

\* the column values both the INSERT and the UPDATE write, lines 241-251, 263-273
ContextValuesOf(techInfo, userId, projectName, description, now) ==
  [user_id |-> userId,
   project_name |-> projectName,
   description |-> description,
   tech_stack |-> ToJsonb(JObj(techInfo.tech_stack)),
   project_type |-> techInfo.project_type,
   programming_languages |-> techInfo.programming_languages,
   build_system |-> techInfo.build_system,
   test_framework |-> techInfo.test_framework,
   last_modified_at |-> now,
   is_active |-> TRUE,
   context_hash |-> calculateContextHash(techInfo.tech_stack)]

\* lines 219-220 and the parameters of the UPDATE and the INSERT
ContextValues(userId, projectName, fileList, description, now) ==
  ContextValuesOf(detectTechStack(fileList), userId, projectName, description, now)

ContextRow(id, values) == [id |-> id] @@ values

\* the rows an UPDATE of these ids, or an INSERT with this id, leaves
ContextRows(ids, values) == {ContextRow(id, values) : id \in ids}

\* NOW() in the context transaction of the save with this id: every
\* transaction has a start time of its own
Now(id) == id

\* BEGIN and the SELECT of lines 224-228
CtxSelect(p) ==
  LET me == sv[p]
  IN  /\ me.pc = "ctxSelect"
      /\ sv' = Set(p, [me EXCEPT
                         !.pc = "ctxWrite",
                         !.ctxFound =
                            ContextsOf(project_contexts, me.userId, me.input.project_name) # {}])
      /\ UNCHANGED <<tables, nSaves, nFailures, returned, committedInputs>>

\* a row of the same (user, project) written by an open transaction of
\* another request: the statement waits for that transaction to end
ContextLocked(p) ==
  \E q \in Procs \ {p} :
    ContextsOf(sv[q].ctxPending \cup sv[q].txContexts,
               sv[p].userId, sv[p].input.project_name) # {}

\* table project_contexts without its uniqueness constraint
ContextUniqueOff(rows, userId, project) == TRUE

\* project_contexts_user_project_unique, schema.ts line 429
ContextUniqueOk(rows, userId, project) == ContextsOf(rows, userId, project) = {}

\* the UPDATE of lines 234-252 or the INSERT of lines 257-274
CtxWrite(p) ==
  LET me == sv[p]
      values == ContextValues(me.userId, me.input.project_name, normalizedFiles(me.input),
                              me.input.description, Now(me.id))
      old == ContextsOf(project_contexts, me.userId, me.input.project_name)
  IN  /\ me.pc = "ctxWrite"
      /\ ~ContextLocked(p)
      /\ sv' = Set(p,
           IF me.ctxFound
                \/ ContextUniqueOk(project_contexts, me.userId, me.input.project_name)
           THEN [me EXCEPT !.pc = "ctxCommit",
                           !.ctxPending =
                              ContextRows(IF me.ctxFound THEN {c.id : c \in old}
                                          ELSE {me.id}, values)]
           ELSE Thrown(me, "ctxRollback", "project_contexts_user_project_unique"))
      /\ UNCHANGED <<tables, nSaves, nFailures, returned, committedInputs>>

\* COMMIT of the context transaction, connection.ts line 168; the row is
\* returned to saveSession as projectContext
CtxCommit(p) ==
  LET me == sv[p]
      ids == {c.id : c \in me.ctxPending}
  IN  /\ me.pc = "ctxCommit"
      /\ project_contexts' =
           {c \in project_contexts : c.id \notin ids} \cup me.ctxPending
      /\ sv' = Set(p, [me EXCEPT
                         !.pc = "snapRead",
                         !.ctxPending = {},
                         !.projectContextId = CHOOSE id \in ids : TRUE])
      /\ UNCHANGED <<sessions, files, conversations, project_context_snapshots,
                     nSaves, nFailures, returned, committedInputs>>

\* ROLLBACK of the context transaction, connection.ts line 174; the error is
\* thrown on into the transaction of the save
CtxRollback(p) ==
  LET me == sv[p]
  IN  /\ me.pc = "ctxRollback"
      /\ sv' = Set(p, [me EXCEPT !.pc = "rollback", !.ctxPending = {}])
      /\ UNCHANGED <<tables, nSaves, nFailures, returned, committedInputs>>

(***************************************************************************)
(* createSnapshot, lines 286-375: both statements go through the pool      *)
(* (this.db.query), each in autocommit mode.                               *)
(***************************************************************************)
SnapshotsOf(rows, ctxId) == {n \in rows : n.project_context_id = ctxId}

\* the SELECT of the version finding no snapshot row
MaxSnapshotVersionNone(rows, ctxId) == 0

MaxSnapshotVersion(rows, ctxId) ==
  IF SnapshotsOf(rows, ctxId) = {} THEN 0
  ELSE Max({n.snapshot_version : n \in SnapshotsOf(rows, ctxId)})

\* lines 298-303
SnapRead(p) ==
  LET me == sv[p]
  IN  /\ me.pc = "snapRead"
      /\ sv' = Set(p, [me EXCEPT
                         !.pc = "snapInsert",
                         !.nextVersion =
                            MaxSnapshotVersion(project_context_snapshots,
                                               me.projectContextId) + 1])
      /\ UNCHANGED <<tables, nSaves, nFailures, returned, committedInputs>>

\* content.length, for the two texts of the model around the limit of line
\* 328; every other content is short
ContentLength(c) ==
  IF ~IsText(c) THEN 300
  ELSE CASE c.text = "doc_10000" -> 10000
         [] c.text = "doc_10001" -> 10001
         [] OTHER -> 100

\* path.includes('config')
PathIncludesConfig(path) == path \in {"tsconfig.json", "app.config.json"}

KeyFileMaxLength == 10000

\* content.substring(0, 10000) + '...'
Truncated(content) == [first |-> KeyFileMaxLength, of |-> content, then |-> "..."]

\* a key file for every file
IsKeyFileAlways(file) == TRUE

\* lines 321-324
IsKeyFile(file) ==
  \/ file.path \in {"package.json", "tsconfig.json", "requirements.txt", "Cargo.toml",
                    "go.mod", "README.md", ".gitignore", "Dockerfile", "docker-compose.yml"}
  \/ Ext(file.path) = "md"
  \/ (Ext(file.path) = "json" /\ PathIncludesConfig(file.path))

\* lines 325-329
KeyFileEntry(file) ==
  [path |-> file.path,
   type |-> IF Ext(file.path) = "" THEN "unknown" ELSE Ext(file.path),
   content |-> IF ContentLength(file.content) > KeyFileMaxLength
               THEN Truncated(file.content) ELSE file.content]

\* lines 305-331: the key files of a snapshot, in the order of the files
keyFiles(fileList) ==
  LET key == SelectSeq(fileList, IsKeyFile)
  IN  [i \in DOMAIN key |-> KeyFileEntry(key[i])]

\* project_context_snapshots_reason_valid, schema.ts line 459
ReasonValid(reason) ==
  reason \in {"auto", "manual", "tech-change", "major-update", "dependency-change"}

\* table project_context_snapshots without its uniqueness constraint
SnapshotUniqueOff(rows, ctxId, version) == TRUE

\* project_context_snapshots_context_version_unique, schema.ts line 457
SnapshotUniqueOk(rows, ctxId, version) ==
  \A n \in rows : ~(n.project_context_id = ctxId /\ n.snapshot_version = version)

SnapshotLocked(p) ==
  \E q \in Procs \ {p} : \E n \in sv[q].txSnapshots :
    n.project_context_id = sv[p].projectContextId /\ n.snapshot_version = sv[p].nextVersion

\* lines 350-366
SnapInsert(p) ==
  LET me == sv[p]
      row == [id |-> me.id,
              project_context_id |-> me.projectContextId,
              snapshot_version |-> me.nextVersion,
              key_files |-> keyFiles(normalizedFiles(me.input)),
              snapshot_reason |-> me.snapshotReason,
              created_by |-> "auto"]
      ok == /\ ReasonValid(me.snapshotReason)
            /\ me.nextVersion > 0
            /\ SnapshotUniqueOk(project_context_snapshots, me.projectContextId, me.nextVersion)
  IN  /\ me.pc = "snapInsert"
      /\ ~SnapshotLocked(p)
      /\ project_context_snapshots' =
           IF ok THEN project_context_snapshots \cup {row} ELSE project_context_snapshots
      /\ sv' = Set(p,
           IF ok THEN [me EXCEPT !.pc = "readVersion", !.snapshotId = me.id]
           ELSE Thrown(me, "rollback",
                       IF ReasonValid(me.snapshotReason)
                       THEN "project_context_snapshots_context_version_unique"
                       ELSE "project_context_snapshots_reason_valid"))
      /\ UNCHANGED <<sessions, files, conversations, project_contexts,
                     nSaves, nFailures, returned, committedInputs>>

(***************************************************************************)
(* saveSession, lines 95-186: the statements sent on the transaction       *)
(* client of the save.                                                     *)
(***************************************************************************)
\* the WHERE clause without its name condition
SameKeyAnyName(r, userId, name, project) ==
  r.user_id = userId /\ r.project_name = project

SameKey(r, userId, name, project) ==
  r.user_id = userId /\ r.name = name /\ r.project_name = project

\* the read of the version without the test of userId of lines 96-98
ReadVersionUnchecked(p) ==
  LET me == sv[p]
      seen == {r \in sessions \cup me.txSessions :
                 SameKey(r, me.userId, me.input.session_name, me.input.project_name)}
      currentVersion == IF seen = {} THEN 0 ELSE Max({r.version : r \in seen})
  IN  /\ me.pc = "readVersion"
      /\ sv' = Set(p, [me EXCEPT !.pc = "insertSession", !.newVersion = currentVersion + 1])
      /\ UNCHANGED <<tables, nSaves, nFailures, returned, committedInputs>>

\* lines 96-110: SELECT MAX(version) over the rows the transaction sees
ReadVersion(p) ==
  LET me == sv[p]
      seen == {r \in sessions \cup me.txSessions :
                 SameKey(r, me.userId, me.input.session_name, me.input.project_name)}
      currentVersion == IF seen = {} THEN 0 ELSE Max({r.version : r \in seen})
  IN  /\ me.pc = "readVersion"
      /\ sv' = Set(p,
           IF me.userId = ""
           THEN Thrown(me, "rollback", "auth")
           ELSE [me EXCEPT !.pc = "insertSession", !.newVersion = currentVersion + 1])
      /\ UNCHANGED <<tables, nSaves, nFailures, returned, committedInputs>>

(***************************************************************************)
(* detect_tech_stack_changes, schema.ts lines 484-532: the BEFORE INSERT   *)
(* trigger on sessions.  It runs inside the inserting transaction and      *)
(* yields the rows it adds and the snapshot_id it puts on the new row.     *)
(***************************************************************************)
detect_tech_stack_changes(new, ctxRows, snapRows) ==
  LET active == ActiveContexts(ctxRows, new.user_id, new.project_name)
      created == [id |-> new.id, user_id |-> new.user_id,
                  project_name |-> new.project_name,
                  description |-> "Auto-detected project context",
                  tech_stack |-> JObj(<< >>), project_type |-> NULL,
                  programming_languages |-> << >>, build_system |-> NULL,
                  test_framework |-> NULL, last_modified_at |-> Now(new.id),
                  is_active |-> TRUE, context_hash |-> JNull]
      current_project_context ==
        IF active = {} THEN new.id ELSE (CHOOSE c \in active : TRUE).id
      current_snapshot_version == MaxSnapshotVersion(snapRows, current_project_context)
      should_create_snapshot == active = {} \/ current_snapshot_version = 0
      snapshot == [id |-> new.id, project_context_id |-> current_project_context,
                   snapshot_version |-> current_snapshot_version + 1,
                   key_files |-> << >>,
                   snapshot_reason |-> "auto", created_by |-> "auto"]
  IN  [ok |-> active # {}
               \/ (new.project_name # ""
                     /\ ContextUniqueOk(ctxRows, new.user_id, new.project_name)),
       contexts |-> IF active = {} THEN {created} ELSE {},
       snapshots |-> IF should_create_snapshot THEN {snapshot} ELSE {},
       snapshot_id |-> IF should_create_snapshot THEN new.id ELSE new.snapshot_id]

\* table sessions without its uniqueness constraint
SessionUniqueOff(rows, r) == TRUE

\* sessions_user_name_project_version_unique, schema.ts line 39
SessionUniqueOk(rows, r) ==
  \A o \in rows : ~(SameKey(o, r.user_id, r.name, r.project_name) /\ o.version = r.version)

\* a row of the same key and version written by an open transaction of
\* another request: the INSERT waits for that transaction to end
SessionLocked(p, r) ==
  \E q \in Procs \ {p} : ~SessionUniqueOk(sv[q].txSessions, r)

\* the CHECK constraints of table sessions, schema.ts lines 40-44
SessionChecksOk(r) == r.name # "" /\ r.project_name # "" /\ r.version > 0

\* the parameters of the INSERT with the id of the project context in the
\* place of the id of the snapshot
NewSessionRowOfContext(me) ==
  [id |-> me.id, user_id |-> me.userId, name |-> me.input.session_name,
   project_name |-> me.input.project_name, version |-> me.newVersion,
   snapshot_id |-> me.projectContextId]

\* the parameters of the INSERT, lines 130-140
NewSessionRow(me) ==
  [id |-> me.id, user_id |-> me.userId, name |-> me.input.session_name,
   project_name |-> me.input.project_name, version |-> me.newVersion,
   snapshot_id |-> me.snapshotId]

\* lines 121-142
InsertSession(p) ==
  LET me == sv[p]
      new == NewSessionRow(me)
      trg == detect_tech_stack_changes(new, project_contexts \cup me.txContexts,
                                       project_context_snapshots \cup me.txSnapshots)
      row == [new EXCEPT !.snapshot_id = trg.snapshot_id]
      ok == trg.ok /\ SessionChecksOk(row) /\ SessionUniqueOk(sessions \cup me.txSessions, row)
  IN  /\ me.pc = "insertSession"
      /\ ~SessionLocked(p, row)
      /\ sv' = Set(p,
           IF ok
           THEN [me EXCEPT !.pc = "insertFile", !.i = 1,
                           !.txSessions = {row},
                           !.txContexts = trg.contexts,
                           !.txSnapshots = trg.snapshots]
           ELSE Thrown(me, "rollback",
                       IF trg.ok /\ SessionChecksOk(row)
                       THEN "sessions_user_name_project_version_unique"
                       ELSE "check_violation"))
      /\ UNCHANGED <<tables, nSaves, nFailures, returned, committedInputs>>

\* files_session_path_unique, schema.ts line 60
FileUniqueOk(rows, r) ==
  \A o \in rows : ~(o.session_id = r.session_id /\ o.path = r.path)

\* lines 145-154: one INSERT per file
InsertFile(p) ==
  LET me == sv[p]
      file == normalizedFiles(me.input)[me.i]
      row == [session_id |-> me.id, path |-> file.path, content |-> file.content]
      ok == file.path # "" /\ FileUniqueOk(files \cup me.txFiles, row)
      last == me.i = Len(normalizedFiles(me.input))
  IN  /\ me.pc = "insertFile"
      /\ sv' = Set(p,
           IF ok
           THEN [me EXCEPT !.txFiles = @ \cup {row},
                           !.i = IF last THEN 1 ELSE @ + 1,
                           !.pc = IF ~last THEN "insertFile"
                                  ELSE IF Len(me.input.conversation) > 0
                                  THEN "insertConversation" ELSE "commit"]
           ELSE Thrown(me, "rollback",
                       IF file.path = "" THEN "check_violation"
                       ELSE "files_session_path_unique"))
      /\ UNCHANGED <<tables, nSaves, nFailures, returned, committedInputs>>

\* conversations_session_order_unique, schema.ts line 80
ConversationUniqueOk(rows, r) ==
  \A o \in rows : ~(o.session_id = r.session_id /\ o.message_order = r.message_order)

\* the column default of conversations.message_order, schema.ts line 75
DefaultMessageOrder == 0

\* lines 157-163: one INSERT per message; message_order is not in the column
\* list, so every row takes the column default
InsertConversation(p) ==
  LET me == sv[p]
      n == Len(me.input.conversation)
      message == me.input.conversation[me.i]
      row == [session_id |-> me.id, role |-> message.role, content |-> message.content,
              message_order |-> DefaultMessageOrder,
              created_at |-> 0 - (n - (me.i - 1))]
      ok == /\ message.role \in {"user", "assistant", "system"}
            /\ message.content # ""
            /\ ConversationUniqueOk(conversations \cup me.txConversations, row)
      last == me.i = n
  IN  /\ me.pc = "insertConversation"
      /\ sv' = Set(p,
           IF ok
           THEN [me EXCEPT !.txConversations = @ \cup {row},
                           !.i = IF last THEN 1 ELSE @ + 1,
                           !.pc = IF last THEN "commit" ELSE "insertConversation"]
           ELSE Thrown(me, "rollback",
                       IF message.content = "" THEN "check_violation"
                       ELSE "conversations_session_order_unique"))
      /\ UNCHANGED <<tables, nSaves, nFailures, returned, committedInputs>>

\* a status that does not look at the version
SaveStatusSaved(currentVersion) == "saved"

\* line 179: status: currentVersion > 0 ? 'versioned' : 'saved'
SaveStatus(currentVersion) == IF currentVersion > 0 THEN "versioned" ELSE "saved"

\* a COMMIT that leaves only the newest version of the key
CommitOverwriting(p) ==
  LET me == sv[p]
  IN  /\ me.pc = "commit"
      /\ sessions' = {r \in sessions :
                        ~SameKey(r, me.userId, me.input.session_name,
                                 me.input.project_name)}
                     \cup me.txSessions
      /\ files' = files \cup me.txFiles
      /\ conversations' = conversations \cup me.txConversations
      /\ project_contexts' = project_contexts \cup me.txContexts
      /\ project_context_snapshots' = project_context_snapshots \cup me.txSnapshots
      /\ committedInputs' =
           (me.id :> [userId |-> me.userId, input |-> me.input]) @@ committedInputs
      /\ sv' = Ended(p)
      /\ returned' = Result(me.id, SaveStatus(me.newVersion - 1), me.newVersion, "none")
      /\ UNCHANGED <<nSaves, nFailures>>

(***************************************************************************)
(* DatabaseConnection.transaction, connection.ts lines 158-184             *)
(***************************************************************************)
\* line 168: COMMIT makes the rows of the transaction visible; lines 177-185
\* of saveSession build the result
Commit(p) ==
  LET me == sv[p]
  IN  /\ me.pc = "commit"
      /\ sessions' = sessions \cup me.txSessions
      /\ files' = files \cup me.txFiles
      /\ conversations' = conversations \cup me.txConversations
      /\ project_contexts' = project_contexts \cup me.txContexts
      /\ project_context_snapshots' = project_context_snapshots \cup me.txSnapshots
      /\ committedInputs' =
           (me.id :> [userId |-> me.userId, input |-> me.input]) @@ committedInputs
      /\ sv' = Ended(p)
      /\ returned' = Result(me.id, SaveStatus(me.newVersion - 1), me.newVersion, "none")
      /\ UNCHANGED <<nSaves, nFailures>>

\* the catch block re-throwing without a ROLLBACK: the client goes back to
\* the pool and its rows become visible with the next COMMIT sent on it
RollbackMissing(p) ==
  LET me == sv[p]
  IN  /\ me.pc = "rollback"
      /\ sessions' = sessions \cup me.txSessions
      /\ files' = files \cup me.txFiles
      /\ conversations' = conversations \cup me.txConversations
      /\ sv' = Ended(p)
      /\ returned' = Result(me.id, "error", 0, me.error)
      /\ UNCHANGED <<project_contexts, project_context_snapshots, nSaves, nFailures,
                     committedInputs>>

\* lines 173-180: ROLLBACK drops the rows of the transaction, then the error
\* is thrown on to the caller
Rollback(p) ==
  LET me == sv[p]
  IN  /\ me.pc = "rollback"
      /\ sv' = Ended(p)
      /\ returned' = Result(me.id, "error", 0, me.error)
      /\ UNCHANGED <<tables, nSaves, nFailures, committedInputs>>

\* a statement fails for a reason of the store (connection lost, timeout):
\* the awaited query rejects
InContextTx(pc) == pc \in {"ctxWrite", "ctxCommit"}

StoreFailure(p) ==
  LET me == sv[p]
  IN  /\ me.pc \in {"getProjectContext", "ctxSelect", "ctxWrite", "ctxCommit",
                    "snapRead", "snapInsert", "readVersion", "insertSession",
                    "insertFile", "insertConversation", "commit"}
      /\ nFailures < MaxFailures
      /\ nFailures' = nFailures + 1
      /\ sv' = Set(p, Thrown(me, IF InContextTx(me.pc) THEN "ctxRollback" ELSE "rollback",
                              "store_failure"))
      /\ UNCHANGED <<tables, nSaves, returned, committedInputs>>

(***************************************************************************)
(* Reading.  Session names, project names and paths are compared character *)
(* by character by ILIKE: Chars gives the characters of the names and      *)
(* filters of the model.                                                   *)
(***************************************************************************)
Chars(s) ==
  CASE s = "" -> << >>
    [] s = "axb" -> <<"a", "x", "b">>
    [] s = "a-b" -> <<"a", "-", "b">>
    [] s = "a_b" -> <<"a", "_", "b">>
    [] s = "bx" -> <<"b", "x">>
    [] s = "XB" -> <<"X", "B">>
    [] s = "pa" -> <<"p", "a">>
    [] s = "pb" -> <<"p", "b">>
    [] s = "A" -> <<"A">>
    [] s = "a.ts" -> <<"a", ".", "t", "s">>
    [] s = "b.ts" -> <<"b", ".", "t", "s">>
    [] s = ".ts" -> <<".", "t", "s">>
    [] s = "CONVERSATION_SUMMARY.md" -> <<"CONVERSATION_SUMMARY", ".", "m", "d">>
    [] OTHER -> <<s>>

\* lower(c) of the characters of the model
LowerChar(c) ==
  CASE c = "A" -> "a"
    [] c = "B" -> "b"
    [] c = "X" -> "x"
    [] c = "CONVERSATION_SUMMARY" -> "conversation_summary"
    [] OTHER -> c

\* text ILIKE pattern: % matches any run of characters, _ any one character,
\* every other character itself whatever its case
RECURSIVE Like(_, _)
Like(text, pattern) ==
  IF pattern = << >> THEN text = << >>
  ELSE IF Head(pattern) = "%"
       THEN Like(text, Tail(pattern)) \/ (text # << >> /\ Like(Tail(text), pattern))
       ELSE /\ text # << >>
            /\ Head(pattern) = "_" \/ LowerChar(Head(text)) = LowerChar(Head(pattern))
            /\ Like(Tail(text), Tail(pattern))

\* column ILIKE `%${term}%`
ILikeAround(column, term) == Like(Chars(column), <<"%">> \o Chars(term) \o <<"%">>)

\* !value of an optional string of the input
Falsy(value) == value = NULL \/ value = ""

\* the rows of S in every order that ORDER BY allows, key giving the sort key
\* of each row: a row with the least key, then the other rows in such an order
RECURSIVE Orderings(_, _)
Orderings(S, key) ==
  IF S = {} THEN {<< >>}
  ELSE UNION {{<<x>> \o rest : rest \in Orderings(S \ {x}, key)} :
                x \in {y \in S : \A z \in S : key[y] <= key[z]}}

\* DEFAULT NOW() of sessions.updated_at (schema.ts line 34): the start time of
\* the inserting transaction; no statement updates a session row
UpdatedAt(s) == Now(s.id)

\* ORDER BY version without DESC
VersionAsc(s) == s.version

VersionDesc(s) == 0 - s.version

\* ORDER BY version DESC
OrderByVersionDesc(S) == Orderings(S, [s \in S |-> VersionDesc(s)])

UpdatedAtDesc(s) == 0 - UpdatedAt(s)

\* ORDER BY s.updated_at DESC
OrderByUpdatedAtDesc(S) == Orderings(S, [s \in S |-> UpdatedAtDesc(s)])

\* the place of a path in ORDER BY path
PathRank(path) ==
  CASE path = "CONVERSATION_SUMMARY.md" -> 1
    [] path = "README.md" -> 2
    [] path = "a.ts" -> 3
    [] path = "b.py" -> 4
    [] path = "b.ts" -> 5
    [] path = "tsconfig.json" -> 6
    [] OTHER -> 7

FilePathAsc(f) == PathRank(f.path)

\* ORDER BY path
OrderByPath(S) == Orderings(S, [f \in S |-> FilePathAsc(f)])

CreatedAtAsc(c) == c.created_at

\* ORDER BY created_at
OrderByCreatedAt(S) == Orderings(S, [c \in S |-> CreatedAtAsc(c)])

\* the exact lookup without its user_id condition
ExactMatchesAnyUser(rows, userId, input) ==
  {s \in rows :
     /\ s.name = input.session_name
     /\ input.project_name = NULL \/ s.project_name = input.project_name}

\* lines 202-209
ExactMatches(rows, userId, input) ==
  {s \in rows :
     /\ s.user_id = userId
     /\ s.name = input.session_name
     /\ input.project_name = NULL \/ s.project_name = input.project_name}

\* ARRAY_AGG(DISTINCT f.path) over the LEFT JOIN of files: the paths of the
\* session, in no order the statement fixes
PathsOf(fileRows, sessionId) == {f.path : f \in {g \in fileRows : g.session_id = sessionId}}

\* the entries of { matches } of lines 218-226, files: []
AmbiguousMatch(s) ==
  [session_id |-> s.id, session_name |-> s.name, project_name |-> s.project_name,
   version |-> s.version, files |-> {}]

\* the entries of { matches } of lines 386-394 and of sessions of lines 325-333
ListedMatch(s, fileRows) ==
  [session_id |-> s.id, session_name |-> s.name, project_name |-> s.project_name,
   version |-> s.version, files |-> PathsOf(fileRows, s.id)]

\* LIMIT n OFFSET m of an ordered result
LimitOffset(seq, n, m) ==
  IF m >= Len(seq) THEN << >>
  ELSE SubSeq(seq, m + 1, IF m + n < Len(seq) THEN m + n ELSE Len(seq))

FuzzyLimit == 10

\* the WHERE clause of the fuzzy search without its user_id condition
FuzzyWhereAnyUser(rows, userId, input) ==
  {s \in rows :
     /\ ILikeAround(s.name, input.session_name)
     /\ Falsy(input.project_name) \/ ILikeAround(s.project_name, input.project_name)}

\* lines 352-359
FuzzyWhere(rows, userId, input) ==
  {s \in rows :
     /\ s.user_id = userId
     /\ ILikeAround(s.name, input.session_name)
     /\ Falsy(input.project_name) \/ ILikeAround(s.project_name, input.project_name)}

\* fuzzySearchSessions, lines 342-405: every result the query can give
fuzzySearchSessions(rows, fileRows, userId, input) ==
  {[matches |-> [i \in DOMAIN LimitOffset(o, FuzzyLimit, 0) |-> ListedMatch(o[i], fileRows)]] :
     o \in OrderByUpdatedAtDesc(FuzzyWhere(rows, userId, input))}

\* Ids are generated per row (gen_random_uuid()); the model numbers the rows
\* of each table by the save that wrote them, so an id is its table and its
\* number: ids of rows of different tables are never equal.
Uuid(table, n) == <<table, n>>

\* LEFT JOIN project_contexts pc ON s.snapshot_id = pc.id, line 422:
\* sessions.snapshot_id references project_context_snapshots(id), schema.ts
\* line 468
JoinedContexts(s, ctxRows) ==
  {pc \in ctxRows :
     /\ s.snapshot_id # NoId
     /\ Uuid("project_context_snapshots", s.snapshot_id) = Uuid("project_contexts", pc.id)}

\* LEFT JOIN project_context_snapshots pcs ..., lines 423-428
JoinedSnapshots(pc, snapRows) ==
  {pcs \in snapRows :
     /\ pcs.project_context_id = pc.id
     /\ pcs.snapshot_version = MaxSnapshotVersion(snapRows, pc.id)}

\* lines 470-489; the version is session.snapshot_version || 1
ProjectContextSummary(s, ctxRows, snapRows) ==
  IF JoinedContexts(s, ctxRows) = {} THEN JUndefined
  ELSE LET pc == CHOOSE c \in JoinedContexts(s, ctxRows) : TRUE
       IN  [id |-> pc.id,
            project_name |-> pc.project_name,
            tech_stack |-> pc.tech_stack,
            programming_languages |-> pc.programming_languages,
            project_type |-> IF pc.project_type \in {NULL, ""} THEN "other"
                             ELSE pc.project_type,
            snapshot |->
              [version |-> IF JoinedSnapshots(pc, snapRows) = {} THEN 1
                           ELSE MaxSnapshotVersion(snapRows, pc.id)]]

\* the files query without its session_id condition
FilesWhereAnySession(fileRows, sessionId, filePath) ==
  {f \in fileRows : Falsy(filePath) \/ f.path = filePath}

\* lines 440-450
FilesWhere(fileRows, sessionId, filePath) ==
  {f \in fileRows : f.session_id = sessionId /\ (Falsy(filePath) \/ f.path = filePath)}

FileOut(f) == [path |-> f.path, content |-> f.content]

ConversationOut(c) == [role |-> c.role, content |-> c.content]

\* the output of lines 512-535 from the session row and the ordered results
\* of the files query and the conversations query
FullSession(s, fs, cs, projectContext) ==
  [session_id |-> s.id, session_name |-> s.name, project_name |-> s.project_name,
   version |-> s.version,
   files |-> [i \in DOMAIN fs |-> FileOut(fs[i])],
   conversation |-> [i \in DOMAIN cs |-> ConversationOut(cs[i])],
   project_context |-> projectContext,
   summaries |-> << >>]

\* retrieveFullSession, lines 407-536, for a session row that exists: every
\* result the queries can give
retrieveFullSession(s, fileRows, convRows, ctxRows, snapRows, filePath) ==
  {FullSession(s, fs, cs, ProjectContextSummary(s, ctxRows, snapRows)) :
     fs \in OrderByPath(FilesWhere(fileRows, s.id, filePath)),
     cs \in OrderByCreatedAt({c \in convRows : c.session_id = s.id})}

\* line 216 without its test of the project filter
ResumeFoundAnyFilter(exactMatches, fileRows, convRows, ctxRows, snapRows, input) ==
  IF Len(exactMatches) > 1
  THEN {[matches |-> [i \in DOMAIN exactMatches |-> AmbiguousMatch(exactMatches[i])]]}
  ELSE retrieveFullSession(exactMatches[1], fileRows, convRows, ctxRows, snapRows,
                           input.file_path)

\* lines 211-241, the exact lookup having given the rows of exactMatches in
\* this order
ResumeFound(exactMatches, fileRows, convRows, ctxRows, snapRows, input) ==
  IF Len(exactMatches) > 1 /\ Falsy(input.project_name)
  THEN {[matches |-> [i \in DOMAIN exactMatches |-> AmbiguousMatch(exactMatches[i])]]}
  ELSE retrieveFullSession(exactMatches[1], fileRows, convRows, ctxRows, snapRows,
                           input.file_path)

\* resumeSession, lines 189-242, for a user id that is given: every result
\* the call can return on these tables
resumeSession(rows, fileRows, convRows, ctxRows, snapRows, userId, input) ==
  IF ExactMatches(rows, userId, input) = {}
  THEN fuzzySearchSessions(rows, fileRows, userId, input)
  ELSE UNION {ResumeFound(o, fileRows, convRows, ctxRows, snapRows, input) :
                o \in OrderByVersionDesc(ExactMatches(rows, userId, input))}

ListLimitDefault == 20

\* lines 257-273
ListWhere(rows, fileRows, userId, input) ==
  {s \in rows :
     /\ s.user_id = userId
     /\ Falsy(input.project_name) \/ ILikeAround(s.project_name, input.project_name)
     /\ Falsy(input.file_path)
          \/ \E f \in fileRows : f.session_id = s.id /\ ILikeAround(f.path, input.file_path)}

\* listSessions, lines 244-340, for a user id that is given
listSessions(rows, fileRows, userId, input) ==
  {[sessions |-> [i \in DOMAIN LimitOffset(o, input.limit, input.offset)
                    |-> ListedMatch(LimitOffset(o, input.limit, input.offset)[i], fileRows)],
    total |-> Cardinality(ListWhere(rows, fileRows, userId, input)),
    limit |-> IF input.limit = 0 THEN ListLimitDefault ELSE input.limit,
    offset |-> input.offset] :
     o \in OrderByUpdatedAtDesc(ListWhere(rows, fileRows, userId, input))}

\* what the caller of resumeSession or listSessions gets
ReadResult(call, userId, input, status, error, output) ==
  [id |-> NoId, status |-> status, version |-> 0, error |-> error,
   call |-> call, userId |-> userId, input |-> input, output |-> output]

\* SessionManager.resumeSession as one step: its statements read committed
\* rows that no statement changes or deletes
Resume(userId, input) ==
  /\ IF userId = ""
     THEN returned' = ReadResult("resumeSession", userId, input, "error", "auth", << >>)
     ELSE \E out \in resumeSession(sessions, files, conversations, project_contexts,
                                   project_context_snapshots, userId, input) :
            returned' = ReadResult("resumeSession", userId, input, "resumed", "none", out)
  /\ UNCHANGED <<tables, nSaves, nFailures, sv, committedInputs>>

\* SessionManager.listSessions as one step
List(userId, input) ==
  /\ IF userId = ""
     THEN returned' = ReadResult("listSessions", userId, input, "error", "auth", << >>)
     ELSE \E out \in listSessions(sessions, files, userId, input) :
            returned' = ReadResult("listSessions", userId, input, "listed", "none", out)
  /\ UNCHANGED <<tables, nSaves, nFailures, sv, committedInputs>>

\* WHERE s.snapshot_id = $1, lines 552 and 559: the parameter is compared
\* with the id of a row of project_context_snapshots
SnapshotIdIs(rows, projectContextId) ==
  {s \in rows :
     /\ s.snapshot_id # NoId
     /\ Uuid("project_context_snapshots", s.snapshot_id) = projectContextId}

\* lines 563-565: retrieveFullSession for each row of the page
FullSessions(page, fileRows, convRows, ctxRows, snapRows) ==
  {f \in [DOMAIN page ->
            UNION {retrieveFullSession(page[i], fileRows, convRows, ctxRows, snapRows, NULL) :
                     i \in DOMAIN page}] :
     \A i \in DOMAIN page :
       f[i] \in retrieveFullSession(page[i], fileRows, convRows, ctxRows, snapRows, NULL)}

\* getSessionsByProjectContext, lines 541-571, called with projectContextId =
\* id: every result the queries can give; created_at and updated_at of a
\* session row are the same DEFAULT NOW()
getSessionsByProjectContext(rows, fileRows, convRows, ctxRows, snapRows, id, limit, offset) ==
  UNION {{[sessions |-> f, total |-> Cardinality(SnapshotIdIs(rows, id))] :
            f \in FullSessions(LimitOffset(o, limit, offset),
                               fileRows, convRows, ctxRows, snapRows)} :
           o \in OrderByUpdatedAtDesc(SnapshotIdIs(rows, id))}

\* SessionManager.getSessionsByProjectContext as one step
SessionsByProjectContext(projectContextId, limit, offset) ==
  /\ \E out \in getSessionsByProjectContext(sessions, files, conversations, project_contexts,
                                            project_context_snapshots,
                                            projectContextId, limit, offset) :
       returned' = ReadResult("getSessionsByProjectContext", "",
                              [projectContextId |-> projectContextId,
                               limit |-> limit, offset |-> offset],
                              "listed", "none", out)
  /\ UNCHANGED <<tables, nSaves, nFailures, sv, committedInputs>>

(***************************************************************************)
(* contextSaveTool.handler: the catch block that turns the error thrown by *)
(* saveSession into the outcome the caller of the tool gets.               *)
(***************************************************************************)
UniqueViolations ==
  {"sessions_user_name_project_version_unique", "files_session_path_unique",
   "conversations_session_order_unique", "project_contexts_user_project_unique",
   "project_context_snapshots_context_version_unique"}

CheckViolations == {"check_violation", "project_context_snapshots_reason_valid"}

\* the message of the error the store or saveSession throws
ErrorMessage(error) ==
  CASE error \in UniqueViolations -> "duplicate key value violates unique constraint"
    [] error \in CheckViolations -> "new row violates check constraint"
    [] error = "auth" -> "User authentication required for session saving"
    [] OTHER -> "Connection terminated unexpectedly"

\* message.includes(part), for the parts the handler looks for
MessageIncludes(message, part) ==
  /\ message = "duplicate key value violates unique constraint"
  /\ part = "duplicate key"

\* the code of the ContextEngineError of the catch block
SaveErrorCode(error) ==
  IF MessageIncludes(ErrorMessage(error), "duplicate key") THEN "DUPLICATE_SESSION"
  ELSE IF MessageIncludes(ErrorMessage(error), "too large") THEN "SIZE_LIMIT_EXCEEDED"
  ELSE "INTERNAL_ERROR"

(***************************************************************************)
(* The handlers of the tools context.save, context.resume and              *)
(* context.list: validate the input, take user_id from it, call the        *)
(* session manager, and turn whatever is thrown into a ContextEngineError. *)
(***************************************************************************)
\* the auth_token rule of the three input schemas, logger.ts lines 140-143:
\* "ce-" and hexadecimal digits, 20 to 100 characters
AuthTokenValid(token) == token \in {"ce-0123456789abcdef01", "ce-ffffffffffffffffff"}

ToolArgs(auth_token, user_id, input) ==
  [auth_token |-> auth_token, user_id |-> user_id, input |-> input]

\* /^[a-zA-Z0-9._-\s]+$/ on the characters of the model's names
NameCharsOk(name) == \A i \in DOMAIN Chars(name) : Chars(name)[i] \notin {"%", "/"}

\* SaveContextSchema, logger.ts lines 112-145, on what a request of the model
\* holds
SaveContextSchemaOk(args) ==
  /\ args.input.session_name # "" /\ NameCharsOk(args.input.session_name)
  /\ args.input.project_name # "" /\ NameCharsOk(args.input.project_name)
  /\ \A i \in DOMAIN args.input.files : args.input.files[i].path # ""
  /\ AuthTokenValid(args.auth_token)

\* ResumeContextSchema, logger.ts lines 147-165
ResumeContextSchemaOk(args) ==
  args.input.session_name # "" /\ AuthTokenValid(args.auth_token)

ListLimitMax == 100

\* ListContextsSchema, logger.ts lines 167-192
ListContextsSchemaOk(args) ==
  /\ args.input.limit >= 1 /\ args.input.limit <= ListLimitMax
  /\ args.input.offset >= 0
  /\ AuthTokenValid(args.auth_token)

SchemaOk(tool, args) ==
  CASE tool = "context.save" -> SaveContextSchemaOk(args)
    [] tool = "context.resume" -> ResumeContextSchemaOk(args)
    [] tool = "context.list" -> ListContextsSchemaOk(args)

\* the Error the three handlers throw themselves when user_id is missing
MissingUserId == "missing_user_id"

\* the message of the thrown error
ThrownMessage(error) ==
  IF error = MissingUserId THEN "User authentication failed: missing user_id"
  ELSE ErrorMessage(error)

\* a catch block that hands the thrown error on as it is
ToolErrorCodeUnmapped(tool, error) == error

\* the catch blocks after their test for a ZodError: part_005 lines 99-115
\* (context.resume) and 215-236 (context.save), context-list.ts lines 81-85
ToolErrorCode(tool, error) ==
  CASE tool = "context.save" ->
         IF MessageIncludes(ThrownMessage(error), "duplicate key") THEN "DUPLICATE_SESSION"
         ELSE IF MessageIncludes(ThrownMessage(error), "too large")
              THEN "SIZE_LIMIT_EXCEEDED"
         ELSE "INTERNAL_ERROR"
    [] tool = "context.resume" ->
         IF MessageIncludes(ThrownMessage(error), "not found") THEN "SESSION_NOT_FOUND"
         ELSE "INTERNAL_ERROR"
    [] tool = "context.list" -> "INTERNAL_ERROR"

\* the ContextEngineError a handler returns: its code, and in details.error
\* the message of what was thrown
ToolError(tool, args, code, message) ==
  [id |-> NoId, status |-> "error", version |-> 0, error |-> code,
   call |-> tool, args |-> args, message |-> message]

ToolResult(tool, args, output) ==
  [id |-> NoId, status |-> "returned", version |-> 0, error |-> "none",
   call |-> tool, args |-> args, output |-> output]

\* the handler returns without the session manager having been called
ToolRefuses(tool, args, code, message) ==
  /\ returned' = ToolError(tool, args, code, message)
  /\ UNCHANGED <<tables, nSaves, nFailures, sv, committedInputs>>

\* lines of the try block before the call of the session manager: "call"
\* when the input passes
ToolGate(tool, args) ==
  IF ~SchemaOk(tool, args) THEN "VALIDATION_ERROR"
  ELSE IF args.user_id = "" THEN ToolErrorCode(tool, MissingUserId)
  ELSE "call"

ToolGateMessage(tool, args) ==
  IF ~SchemaOk(tool, args) THEN "Invalid input provided" ELSE ThrownMessage(MissingUserId)

\* contextSaveTool.handler up to the call of saveSession
ContextSave(args) ==
  IF ToolGate("context.save", args) = "call"
  THEN StartSave(1, [userId |-> args.user_id, input |-> args.input])
  ELSE ToolRefuses("context.save", args, ToolGate("context.save", args),
                   ToolGateMessage("context.save", args))

\* the arguments of a save that has thrown: the model keeps of such a save
\* its open transactions only
ArgsOfThrown == ToolArgs("", "", << >>)

\* the ROLLBACK of a failed saveSession, and the catch block of the handler
\* that gets the error
ContextSaveCatch(p) ==
  LET me == sv[p]
  IN  /\ me.pc = "rollback"
      /\ sv' = Ended(p)
      /\ returned' = ToolError("context.save", ArgsOfThrown,
                               ToolErrorCode("context.save", me.error),
                               ThrownMessage(me.error))
      /\ UNCHANGED <<tables, nSaves, nFailures, committedInputs>>

\* contextResumeTool.handler; a query of resumeSession may be rejected by the
\* store
ContextResume(args) ==
  IF ToolGate("context.resume", args) = "call"
  THEN /\ \/ \E out \in resumeSession(sessions, files, conversations, project_contexts,
                                      project_context_snapshots, args.user_id, args.input) :
               returned' = ToolResult("context.resume", args, out)
          \/ returned' = ToolError("context.resume", args,
                                   ToolErrorCode("context.resume", "store_failure"),
                                   ThrownMessage("store_failure"))
       /\ UNCHANGED <<tables, nSaves, nFailures, sv, committedInputs>>
  ELSE ToolRefuses("context.resume", args, ToolGate("context.resume", args),
                   ToolGateMessage("context.resume", args))

\* contextListTool.handler
ContextList(args) ==
  IF ToolGate("context.list", args) = "call"
  THEN /\ \/ \E out \in listSessions(sessions, files, args.user_id, args.input) :
               returned' = ToolResult("context.list", args, out)
          \/ returned' = ToolError("context.list", args,
                                   ToolErrorCode("context.list", "store_failure"),
                                   ThrownMessage("store_failure"))
       /\ UNCHANGED <<tables, nSaves, nFailures, sv, committedInputs>>
  ELSE ToolRefuses("context.list", args, ToolGate("context.list", args),
                   ToolGateMessage("context.list", args))

(***************************************************************************)
(* Specifications                                                          *)
(***************************************************************************)
OneMessage == <<Msg("user", "hello")>>

TwoMessages == <<Msg("user", "hello"), Msg("assistant", "hi")>>

MessageText(i) ==
  CASE i = 1 -> "m1" [] i = 2 -> "m2" [] i = 3 -> "m3" [] i = 4 -> "m4"
    [] i = 5 -> "m5" [] i = 6 -> "m6" [] i = 7 -> "m7" [] i = 8 -> "m8"
    [] i = 9 -> "m9" [] i = 10 -> "m10" [] OTHER -> "m11"

\* one message more than createSyntheticFile keeps
ElevenMessages == [i \in 1..11 |-> Msg("user", MessageText(i))]

\* Spec: two session names of one user under one project, with files that
\* give different tech stacks
KeyRequests ==
  {Request("u1", "bug-fix", "proj-a",
           <<File("a.ts", Text("src_plain")), File("README.md", Text("doc"))>>,
           OneMessage, NULL),
   Request("u1", "feature", "proj-a",
           <<File("a.ts", Text("src_react"))>>,
           OneMessage, NULL)}

\* SpecCtx: saves of one session key whose files change from save to save
FactRequests ==
  {Request("u1", "bug-fix", "proj-a", fs[1], fs[3], fs[2]) : fs \in
     {<< <<File("tsconfig.json", Text("tsc_strict"))>>, "notes", << >> >>,
      << <<File("tsconfig.json", Text("tsc_loose")), File("b.py", Text("src_plain"))>>,
         NULL, << >> >>,
      << <<File("a.ts", Text("src_react"))>>, NULL, OneMessage >>,
      << <<File("a.ts", Text("src_react"))>>, NULL, TwoMessages >>,
      << << >>, "notes", OneMessage >>,
      << << >>, NULL, ElevenMessages >>,
      << <<File("a.ts", Text("src_plain")), File("a.ts", Text("src_react"))>>,
         NULL, << >> >>}}

\* the statements of a save up to its COMMIT
Statement(p) ==
  \/ GetProjectContext(p)
  \/ CtxSelect(p)
  \/ CtxWrite(p)
  \/ CtxCommit(p)
  \/ SnapRead(p)
  \/ SnapInsert(p)
  \/ ReadVersion(p)
  \/ InsertSession(p)
  \/ InsertFile(p)
  \/ InsertConversation(p)
  \/ Commit(p)

Step(p) ==
  \/ Statement(p)
  \/ Rollback(p)

\* concurrent saves, with store failures
Next ==
  \E p \in Procs :
    \/ \E req \in KeyRequests : StartSave(p, req)
    \/ Step(p)
    \/ CtxRollback(p)
    \/ StoreFailure(p)

Spec == Init /\ [][Next]_vars

\* concurrent saves of one session key, with store failures
OneKeyRequests ==
  {Request("u1", "bug-fix", "proj-a", <<File("a.ts", Text("src_plain"))>>, OneMessage, NULL)}

NextOneKey ==
  \E p \in Procs :
    \/ \E req \in OneKeyRequests : StartSave(p, req)
    \/ Step(p)
    \/ CtxRollback(p)
    \/ StoreFailure(p)

SpecOneKey == Init /\ [][NextOneKey]_vars

(***************************************************************************)
(* The connection pool, connection.ts lines 65-72 and 105-109: pg.Pool     *)
(* with max connections.  A save checks one out for its transaction        *)
(* (transaction, line 159) and keeps it to the end; inside the callback    *)
(* getProjectContext and createSnapshot send their statements through      *)
(* pool.query, which checks out a further connection for the statement,    *)
(* and createOrUpdateProjectContext checks one out for a transaction of    *)
(* its own.                                                                *)
(***************************************************************************)
\* max: config.poolSize, taken as the number of requests served at a time
PoolSize == Cardinality(Procs)

\* the connections a call has checked out between two of its steps
CheckedOutBy(s) ==
  (IF s.pc # "idle" THEN 1 ELSE 0)
    + (IF s.pc \in {"ctxWrite", "ctxCommit", "ctxRollback"} THEN 1 ELSE 0)

RECURSIVE CheckedOut(_)
CheckedOut(P) ==
  IF P = {} THEN 0
  ELSE LET p == CHOOSE q \in P : TRUE IN CheckedOutBy(sv[p]) + CheckedOut(P \ {p})

\* the next step of the call begins with pool.connect or pool.query
TakesConnection(s) == s.pc \in {"getProjectContext", "ctxSelect", "snapRead", "snapInsert"}

\* pool.connect does not resolve while every connection is checked out
Waits(p) == TakesConnection(sv[p]) /\ CheckedOut(Procs) >= PoolSize

\* concurrent saves on the pool; a wait ends when a connection is released
\* or with the connection timeout, which is a failure of the store
NextPool ==
  \E p \in Procs :
    \/ CheckedOut(Procs) < PoolSize /\ \E req \in OneKeyRequests : StartSave(p, req)
    \/ ~Waits(p) /\ Step(p)
    \/ CtxRollback(p)
    \/ StoreFailure(p)

SpecPool == Init /\ [][NextPool]_vars

(***************************************************************************)
(* DatabaseConnection.transaction, part_002 lines 158-184, statement by    *)
(* statement.  Here sv holds the locals of the calls of transaction:       *)
(* the connections the call has checked out and released, the failure its  *)
(* catch block has caught, what it has raised to its caller, and the       *)
(* COMMITs and ROLLBACKs the store has carried out or been sent.           *)
(***************************************************************************)
TxIdle ==
  [pc |-> "idle", held |-> 0, obtained |-> 0, released |-> 0, callback |-> "none",
   failure |-> "none", raised |-> "none", committed |-> 0, rollbacks |-> 0]

InitTx ==
  /\ sessions = {} /\ files = {} /\ conversations = {}
  /\ project_contexts = {} /\ project_context_snapshots = {}
  /\ nSaves = 0 /\ nFailures = 0
  /\ sv = [p \in Procs |-> TxIdle]
  /\ returned = Result(NoId, "none", 0, "none")
  /\ committedInputs = << >>

TxUnchanged == UNCHANGED <<tables, nFailures, committedInputs>>

\* line 159: const client = await this.getClient(); a rejection leaves the
\* function before its try statement
TxGetClient(p) ==
  /\ sv[p].pc \in {"idle", "ended"}
  /\ nSaves < MaxSaves
  /\ nSaves' = nSaves + 1
  /\ \/ /\ sv' = [sv EXCEPT ![p] = [TxIdle EXCEPT !.pc = "begin", !.held = 1, !.obtained = 1]]
        /\ UNCHANGED returned
     \/ /\ sv' = [sv EXCEPT ![p] = [TxIdle EXCEPT !.pc = "ended", !.raised = "connect"]]
        /\ returned' = Result(NoId, "error", 0, "connect")
  /\ TxUnchanged

\* a statement of the try block: it succeeds, or it rejects and control goes
\* to the catch block with its error
TxTry(p, at, next, error) ==
  /\ sv[p].pc = at
  /\ \/ sv' = [sv EXCEPT ![p].pc = next,
                         ![p].callback = IF at = "callback" THEN "completed" ELSE @,
                         ![p].committed = IF at = "commit" THEN @ + 1 ELSE @]
     \/ sv' = [sv EXCEPT ![p].pc = "catch", ![p].failure = error,
                         ![p].callback = IF at = "callback" THEN "failed" ELSE @]
  /\ UNCHANGED <<returned, nSaves>>
  /\ TxUnchanged

\* line 162
TxBegin(p) == TxTry(p, "begin", "callback", "begin")

\* line 165
TxCallback(p) == TxTry(p, "callback", "commit", "callback")

\* line 167
TxCommit(p) == TxTry(p, "commit", "finally", "commit")

\* lines 171-179: await client.query('ROLLBACK'), then throw error; when the
\* ROLLBACK rejects, its rejection leaves the catch block in place of error
TxCatch(p) ==
  /\ sv[p].pc = "catch"
  /\ \/ sv' = [sv EXCEPT ![p].pc = "finally", ![p].rollbacks = @ + 1,
                         ![p].raised = sv[p].failure]
     \/ sv' = [sv EXCEPT ![p].pc = "finally", ![p].rollbacks = @ + 1,
                         ![p].raised = "rollback"]
  /\ UNCHANGED <<returned, nSaves>>
  /\ TxUnchanged

\* a release that is skipped when the function leaves with an error
TxFinallyOnSuccess(p) ==
  /\ sv[p].pc = "finally"
  /\ sv' = [sv EXCEPT ![p].pc = "ended",
                      ![p].held = IF sv[p].raised = "none" THEN @ - 1 ELSE @,
                      ![p].released = IF sv[p].raised = "none" THEN @ + 1 ELSE @]
  /\ returned' = Result(NoId, IF sv[p].raised = "none" THEN "done" ELSE "error", 0,
                        sv[p].raised)
  /\ UNCHANGED nSaves
  /\ TxUnchanged

\* lines 180-182: client.release(), then the result or the error goes to the
\* caller
TxFinally(p) ==
  /\ sv[p].pc = "finally"
  /\ sv' = [sv EXCEPT ![p].pc = "ended", ![p].held = @ - 1, ![p].released = @ + 1]
  /\ returned' = Result(NoId, IF sv[p].raised = "none" THEN "done" ELSE "error", 0,
                        sv[p].raised)
  /\ UNCHANGED nSaves
  /\ TxUnchanged

NextTx ==
  \E p \in Procs :
    \/ TxGetClient(p)
    \/ TxBegin(p)
    \/ TxCallback(p)
    \/ TxCommit(p)
    \/ TxCatch(p)
    \/ TxFinally(p)

SpecTx == InitTx /\ [][NextTx]_vars

\* one save at a time on a store that fails no statement of its own accord
NextCtx ==
  \/ \E req \in FactRequests : StartSave(1, req)
  \/ Step(1)

SpecCtx == Init /\ [][NextCtx]_vars

\* saves whose files are and are not key files, with contents below, at and
\* above the limit of a key file
SnapRequests ==
  {Request("u1", "bug-fix", "proj-a", fileList, OneMessage, NULL) : fileList \in
     {<<File("README.md", Text("doc_10001")), File("data.json", Text("doc_10001")),
        File("app.config.json", Text("doc_10000"))>>,
      <<File("a.ts", Text("src_plain")), File("notes.MD", Text("doc_10000")),
        File("Dockerfile", Text("doc_10001"))>>,
      <<File("package.json", Text("pkg_express")), File("tsconfig.json", Text("doc_10001"))>>,
      << >>}}

NextSnap ==
  \/ \E req \in SnapRequests : StartSave(1, req)
  \/ Statement(1)

SpecSnap == Init /\ [][NextSnap]_vars

\* SpecByContext: saves of two projects one after the other, and the sessions
\* of a project context asked for by the id of a context or of a snapshot
ByContextRequests ==
  {Request("u1", "axb", project, <<File("a.ts", Text("src_plain"))>>, OneMessage, NULL) :
     project \in {"pa", "pb"}}

ByContextIds ==
  {Uuid(table, n) : table \in {"project_contexts", "project_context_snapshots"},
                    n \in 1..MaxSaves}

ByContextLimits == {1, FuzzyLimit}

ByContextOffsets == {0, 1}

NextByContext ==
  \/ \E req \in ByContextRequests : StartSave(1, req)
  \/ Statement(1)
  \/ \E projectContextId \in ByContextIds :
       \E limit \in ByContextLimits : \E offset \in ByContextOffsets :
         SessionsByProjectContext(projectContextId, limit, offset)

SpecByContext == Init /\ [][NextByContext]_vars

\* SpecRead: two users, two projects, session names of which one is part of
\* the other, a save without files
ReadRequests ==
  {Request("u1", "axb", "pa", <<File("b.ts", Text("src_plain")), File("a.ts", Text("src_react"))>>,
           OneMessage, NULL),
   Request("u1", "axb", "pb", << >>, OneMessage, NULL),
   Request("u2", "axb", "pa", <<File("a.ts", Text("src_node"))>>, << >>, NULL),
   Request("u1", "bx", "pa", <<File("a.ts", Text("src_plain"))>>, << >>, NULL)}

Users == {"u1", "u2"}

ResumeInput(name, project, filePath) ==
  [session_name |-> name, project_name |-> project, file_path |-> filePath]

ResumeInputs ==
  {ResumeInput("axb", NULL, NULL), ResumeInput("axb", "pa", NULL),
   ResumeInput("axb", "pa", "a.ts"), ResumeInput("axb", "A", NULL),
   ResumeInput("XB", NULL, NULL), ResumeInput("XB", "A", NULL),
   ResumeInput("a_b", NULL, NULL)}

ListInput(project, filePath, limit, offset) ==
  [project_name |-> project, file_path |-> filePath, limit |-> limit, offset |-> offset]

ListInputs ==
  {ListInput(NULL, NULL, ListLimitDefault, 0), ListInput("A", NULL, ListLimitDefault, 0),
   ListInput(NULL, ".ts", 1, 1), ListInput(NULL, NULL, 1, 0),
   ListInput("_", NULL, ListLimitDefault, 0)}

\* one save at a time, every one of which commits; reads at any moment
NextRead ==
  \/ \E req \in ReadRequests : StartSave(1, req)
  \/ Statement(1)
  \/ \E userId \in Users : \E input \in ResumeInputs : Resume(userId, input)
  \/ \E userId \in Users : \E input \in ListInputs : List(userId, input)

SpecRead == Init /\ [][NextRead]_vars

\* SpecAuth: calls with and without a user id
AuthUsers == {"", "u1"}

AuthRequests ==
  {Request(u, "axb", "pa", <<File("a.ts", Text("src_plain"))>>, OneMessage, NULL) :
     u \in AuthUsers}

AuthResumeInputs == {ResumeInput("axb", NULL, NULL), ResumeInput("axb", "pa", NULL)}

AuthListInputs == {ListInput(NULL, NULL, ListLimitDefault, 0)}

\* one save at a time, reads at any moment
NextAuth ==
  \/ \E req \in AuthRequests : StartSave(1, req)
  \/ Step(1)
  \/ \E userId \in AuthUsers : \E input \in AuthResumeInputs : Resume(userId, input)
  \/ \E userId \in AuthUsers : \E input \in AuthListInputs : List(userId, input)

SpecAuth == Init /\ [][NextAuth]_vars

(***************************************************************************)
(* The demo server, demo/server.ts: three routes in front of the session   *)
(* manager, all run for the one demo user.                                 *)
(***************************************************************************)
\* request.headers['authorization']: absent, or a text with or without the
\* Bearer scheme in front of a value
NoHeader == [present |-> FALSE, bearer |-> FALSE, value |-> ""]
Header(bearer, value) == [present |-> TRUE, bearer |-> bearer, value |-> value]

\* lines 72-82; the empty text stands for null.  A header of the scheme alone
\* is trimmed to "Bearer", which does not start with "Bearer "
extractToken(header) ==
  IF ~header.present THEN ""
  ELSE IF header.bearer /\ header.value = "" THEN "Bearer"
  ELSE header.value

\* lines 86-93 of each route: what becomes of the request before the session
\* manager is called
DemoGate(demoAuthMode, demoToken, header) ==
  LET providedToken == IF extractToken(header) = "" THEN demoToken ELSE extractToken(header)
  IN  IF demoAuthMode = "token" /\ providedToken # demoToken THEN "UNAUTHORIZED"
      ELSE IF ~AuthTokenValid(providedToken) THEN "VALIDATION_ERROR"
      ELSE "run"

\* reply.status(401 or 400).send(...)
DemoRefused(error) ==
  /\ returned' = Result(NoId, "error", 0, error)
  /\ UNCHANGED <<tables, nSaves, nFailures, sv, committedInputs>>

demoUser == "demo-user"

\* POST /context/save, lines 84-103
DemoSave(demoAuthMode, demoToken, header, input) ==
  IF DemoGate(demoAuthMode, demoToken, header) = "run"
  THEN StartSave(1, [userId |-> demoUser, input |-> input])
  ELSE DemoRefused(DemoGate(demoAuthMode, demoToken, header))

\* POST /context/resume, lines 105-124
DemoResume(demoAuthMode, demoToken, header, input) ==
  IF DemoGate(demoAuthMode, demoToken, header) = "run"
  THEN Resume(demoUser, input)
  ELSE DemoRefused(DemoGate(demoAuthMode, demoToken, header))

\* POST /context/list, lines 126-145
DemoList(demoAuthMode, demoToken, header, input) ==
  IF DemoGate(demoAuthMode, demoToken, header) = "run"
  THEN List(demoUser, input)
  ELSE DemoRefused(DemoGate(demoAuthMode, demoToken, header))

\* DEMO_AUTH_MODE and DEMO_AUTH_TOKEN: the default token and one the input
\* schemas accept
DemoModes == {"token", "none"}
DemoTokens == {"demo-token", "ce-0123456789abcdef01"}

DemoHeaders ==
  {NoHeader, Header(FALSE, ""), Header(TRUE, "")}
    \cup {Header(b, v) : b \in BOOLEAN,
                         v \in {"demo-token", "ce-0123456789abcdef01", "ce-ffffffffffffffffff"}}

DemoSaveInputs ==
  {Request(demoUser, "axb", "pa", <<File("a.ts", Text("src_plain"))>>, OneMessage, NULL).input}

DemoResumeInputs == {ResumeInput("axb", NULL, NULL)}

DemoListInputs == {ListInput(NULL, NULL, ListLimitDefault, 0)}

NextDemo ==
  \/ \E mode \in DemoModes : \E token \in DemoTokens : \E header \in DemoHeaders :
       \/ \E input \in DemoSaveInputs : DemoSave(mode, token, header, input)
       \/ \E input \in DemoResumeInputs : DemoResume(mode, token, header, input)
       \/ \E input \in DemoListInputs : DemoList(mode, token, header, input)
  \/ Statement(1)

SpecDemo == Init /\ [][NextDemo]_vars

\* SpecTools: the three tools called with and without a user id, with tokens
\* and inputs the schemas accept and refuse; a save with the same path twice
ToolTokens == {"ce-0123456789abcdef01", "demo-token"}

ToolUsers == {"", "u1"}

ToolSaveInputs ==
  {Request("u1", name, "pa", fileList, OneMessage, NULL).input :
     name \in {"axb", "", "%"},
     fileList \in {<<File("a.ts", Text("src_plain"))>>,
                   <<File("a.ts", Text("src_plain")), File("a.ts", Text("src_react"))>>}}

ToolResumeInputs == {ResumeInput("axb", NULL, NULL), ResumeInput("", NULL, NULL)}

ToolListInputs ==
  {ListInput(NULL, NULL, ListLimitDefault, 0), ListInput(NULL, NULL, 0, 0),
   ListInput(NULL, NULL, ListLimitMax + 1, 0)}

\* one call of a tool at a time
NextTools ==
  \/ \E auth_token \in ToolTokens : \E user_id \in ToolUsers :
       /\ sv[1].pc = "idle"
       /\ \/ \E input \in ToolSaveInputs : ContextSave(ToolArgs(auth_token, user_id, input))
          \/ \E input \in ToolResumeInputs :
               ContextResume(ToolArgs(auth_token, user_id, input))
          \/ \E input \in ToolListInputs : ContextList(ToolArgs(auth_token, user_id, input))
  \/ Statement(1)
  \/ CtxRollback(1)
  \/ StoreFailure(1)
  \/ ContextSaveCatch(1)

SpecTools == Init /\ [][NextTools]_vars

(***************************************************************************)
(* ProjectManager.detectTechStack and calculateContextHash called on their *)
(* own: they read and write nothing but their argument.                    *)
(***************************************************************************)
\* what the caller of one of the two functions gets
FactsResult(call, input, output) ==
  [id |-> NoId, status |-> "returned", version |-> 0, error |-> "none",
   call |-> call, input |-> input, output |-> output]

\* the property names of the facts records that are fingerprinted
HashKeys == {"nodejs", "npm_packages", "react", "tsconfig"}

\* the values a property takes; a nested object carries names that are
\* property names of the record as well, in both orders
HashValues(k) ==
  CASE k = "npm_packages" ->
         {JArr(<< >>), JArr(<<JStr("react"), JStr("express")>>),
          JArr(<<JStr("express"), JStr("react")>>)}
    [] k = "tsconfig" ->
         {JNull, JSONparseText("tsc_strict"), JSONparseText("tsc_loose"),
          JObj(<< <<"react", JStr("18")>>, <<"nodejs", JBool(FALSE)>> >>),
          JObj(<< <<"nodejs", JBool(FALSE)>>, <<"react", JStr("18")>> >>)}
    [] OTHER -> {JBool(TRUE)}

\* every record with these property names, in every order of insertion
RECURSIVE Records(_)
Records(K) ==
  IF K = {} THEN {<< >>}
  ELSE UNION {{<< <<k, v>> >> \o r : v \in HashValues(k), r \in Records(K \ {k})} : k \in K}

HashInputs == UNION {Records(K) : K \in SUBSET HashKeys}

\* longest file list handed to detectTechStack
MaxFiles == 2

DetectFiles ==
  {File("a.ts", Text("src_plain")), File("a.ts", Text("src_react")),
   File("b.py", Text("src_plain")), File("b.py", Text("src_flask")),
   File("package.json", Text("pkg_express")), File("package.json", Text("pkg_react")),
   File("package.json", Text("pkg_empty")), File("package.json", Text("json_null")),
   File("package.json", Text("not_json")),
   File("tsconfig.json", Text("tsc_strict")), File("tsconfig.json", Text("json_null")),
   File("tsconfig.json", Text("not_json")),
   File("requirements.txt", Text("req_django")), File("requirements.txt", Text("req_plain")),
   File("Cargo.toml", Text("cargo_plain")), File("Cargo.toml", Text("cargo_axum")),
   File("go.mod", Text("gomod_gin")), File("go.mod", Text("src_plain")),
   File("README.md", Text("src_plain")),
   createSyntheticFile(Request("u1", "axb", "pa", << >>, OneMessage, NULL).input)}

DetectInputs == UNION {[1..n -> DetectFiles] : n \in 0..MaxFiles}

\* one call in a behaviour: a call depends on nothing an earlier one did
Detect(fileList) ==
  /\ "call" \notin DOMAIN returned
  /\ returned' = FactsResult("detectTechStack", fileList, detectTechStack(fileList))
  /\ UNCHANGED <<tables, nSaves, nFailures, sv, committedInputs>>

Fingerprint(tech_stack) ==
  /\ "call" \notin DOMAIN returned
  /\ returned' = FactsResult("calculateContextHash", tech_stack,
                             calculateContextHash(tech_stack))
  /\ UNCHANGED <<tables, nSaves, nFailures, sv, committedInputs>>

NextFacts ==
  \/ \E fileList \in DetectInputs : Detect(fileList)
  \/ \E tech_stack \in HashInputs : Fingerprint(tech_stack)

SpecFacts == Init /\ [][NextFacts]_vars

(***************************************************************************)
(* Properties                                                              *)
(***************************************************************************)
KeyOf(userId, input) == <<userId, input.session_name, input.project_name>>

KeyOfRow(r) == <<r.user_id, r.name, r.project_name>>

\* the keys under which a save has committed or a session row is stored
StoredKeys ==
  {KeyOfRow(r) : r \in sessions}
    \cup {KeyOf(committedInputs[id].userId, committedInputs[id].input) :
            id \in DOMAIN committedInputs}

CommittedUnder(k) ==
  {id \in DOMAIN committedInputs :
     KeyOf(committedInputs[id].userId, committedInputs[id].input) = k}

RowsOfKey(k) == {r \in sessions : KeyOfRow(r) = k}

\* C1: for every (user, session name, project name), the versions of the
\* stored session rows are exactly 1..N, N being the number of saves that
\* have committed under that key, one row per version
C1_VersionsAreOneToN ==
  \A k \in StoredKeys :
    LET N == Cardinality(CommittedUnder(k))
    IN  /\ {r.version : r \in RowsOfKey(k)} = 1..N
        /\ Cardinality(RowsOfKey(k)) = N

\* two saves have committed under one key and one under another key
C1_Witness ==
  \E k1, k2 \in StoredKeys :
    /\ k1 # k2
    /\ Cardinality(CommittedUnder(k1)) >= 2
    /\ Cardinality(CommittedUnder(k2)) >= 1

\* C2: no version of a key is ever stored twice; the save that loses the
\* race for a version ends as an error and stores no session row, and a save
\* that returns a version has stored exactly the row of that version
C2_OneWinnerPerVersion ==
  /\ \A r1, r2 \in sessions :
       (KeyOfRow(r1) = KeyOfRow(r2) /\ r1.version = r2.version) => r1 = r2
  /\ returned.error = "sessions_user_name_project_version_unique" =>
       /\ returned.status = "error"
       /\ \A r \in sessions : r.id # returned.id
  /\ returned.status \in {"saved", "versioned"} =>
       /\ Cardinality({r \in sessions : r.id = returned.id}) = 1
       /\ \A r \in sessions : r.id = returned.id => r.version = returned.version

\* a save has lost the race for a version while the winner's row is stored
C2_Witness ==
  /\ returned.error = "sessions_user_name_project_version_unique"
  /\ sessions # {}

FileRowsOf(id) == {f \in files : f.session_id = id}

ConversationRowsOf(id) == {c \in conversations : c.session_id = id}

ExpectedFileRows(id) ==
  LET nf == normalizedFiles(committedInputs[id].input)
  IN  {[session_id |-> id, path |-> nf[i].path, content |-> nf[i].content] :
         i \in DOMAIN nf}

ExpectedMessages(id) ==
  LET conv == committedInputs[id].input.conversation
  IN  {[role |-> conv[i].role, content |-> conv[i].content] : i \in DOMAIN conv}

\* C3: a session row is stored together with all the file rows and all the
\* conversation rows of its save, or not at all: a save that is in progress
\* or has failed has no row in any of the three tables
C3_SessionIsAllOrNothing ==
  /\ \A s \in sessions :
       /\ s.id \in DOMAIN committedInputs
       /\ FileRowsOf(s.id) = ExpectedFileRows(s.id)
       /\ {[role |-> c.role, content |-> c.content] : c \in ConversationRowsOf(s.id)}
            = ExpectedMessages(s.id)
       /\ Cardinality(ConversationRowsOf(s.id))
            = Len(committedInputs[s.id].input.conversation)
  /\ \A f \in files : \E s \in sessions : s.id = f.session_id
  /\ \A c \in conversations : \E s \in sessions : s.id = c.session_id
  /\ \A p \in Procs :
       sv[p].pc # "idle" =>
         /\ \A s \in sessions : s.id # sv[p].id
         /\ FileRowsOf(sv[p].id) = {}
         /\ ConversationRowsOf(sv[p].id) = {}
  /\ returned.status = "error" =>
       /\ \A s \in sessions : s.id # returned.id
       /\ FileRowsOf(returned.id) = {}
       /\ ConversationRowsOf(returned.id) = {}

\* a store failure has hit a save after its session row and both its file
\* rows were written and before its conversation row; its ROLLBACK is due,
\* and the rows of another save are committed
C3_Witness ==
  /\ sessions # {}
  /\ \E p \in Procs :
       /\ sv[p].pc = "rollback"
       /\ sv[p].error = "store_failure"
       /\ sv[p].txSessions # {}
       /\ Cardinality(sv[p].txFiles) = 2
       /\ sv[p].txConversations = {}

\* the fields a context row takes from a save
FactsOf(userId, input) ==
  ContextValues(userId, input.project_name, normalizedFiles(input),
                input.description, 0)

\* the facts the claims list: tech-stack facts, languages, project type,
\* build system, test framework
DetectedFacts(userId, input) ==
  LET v == FactsOf(userId, input)
  IN  [tech_stack |-> v.tech_stack,
       project_type |-> v.project_type,
       programming_languages |-> v.programming_languages,
       build_system |-> v.build_system,
       test_framework |-> v.test_framework]

\* the committed saves of the user and project of save id that came before it
EarlierSaves(id) ==
  {j \in DOMAIN committedInputs :
     /\ j < id
     /\ committedInputs[j].userId = committedInputs[id].userId
     /\ committedInputs[j].input.project_name = committedInputs[id].input.project_name}

Previous(id) == Max(EarlierSaves(id))

SnapshotsBy(id) == {n \in project_context_snapshots : n.id = id}

\* C4: a save that ends as an error has left no trace in the context table
\* and none in the snapshot table
C4_FailedSaveLeavesNoContextWrite ==
  returned.status = "error" =>
    /\ \A c \in project_contexts : c.last_modified_at # Now(returned.id)
    /\ SnapshotsBy(returned.id) = {}

\* C5: of two consecutive committed saves of a project whose detected facts
\* differ, the second has added exactly one snapshot, with the reason
\* tech-change
C5_ChangedFactsGiveTechChange ==
  \A id \in DOMAIN committedInputs :
    (/\ EarlierSaves(id) # {}
     /\ DetectedFacts(committedInputs[id].userId, committedInputs[id].input)
          # DetectedFacts(committedInputs[Previous(id)].userId,
                          committedInputs[Previous(id)].input))
    => /\ Cardinality(SnapshotsBy(id)) = 1
       /\ \A n \in SnapshotsBy(id) : n.snapshot_reason = "tech-change"

\* C6: a committed save whose detected facts are those of the committed save
\* before it, on a context that has a snapshot, has added no snapshot
C6_UnchangedFactsGiveNoSnapshot ==
  \A id \in DOMAIN committedInputs :
    (/\ EarlierSaves(id) # {}
     /\ SnapshotsBy(Previous(id)) # {}
     /\ DetectedFacts(committedInputs[id].userId, committedInputs[id].input)
          = DetectedFacts(committedInputs[Previous(id)].userId,
                          committedInputs[Previous(id)].input))
    => SnapshotsBy(id) = {}

\* the context row a save is about to commit holds the facts detected from
\* the files of that save
CreatesFromFacts(me) ==
  me.ctxPending =
    {ContextRow(me.id, ContextValues(me.userId, me.input.project_name,
                                     normalizedFiles(me.input),
                                     me.input.description, Now(me.id)))}

ContextsUnique ==
  \A c1, c2 \in project_contexts :
    (c1.user_id = c2.user_id /\ c1.project_name = c2.project_name) => c1 = c2

ContextIdsStable ==
  \A c \in project_contexts :
    \E c2 \in project_contexts' :
      c2.id = c.id /\ c2.user_id = c.user_id /\ c2.project_name = c.project_name

\* C8: there is never more than one context row for a (user, project), and
\* the row of a project keeps its id through every later save
C8_OneContextPerProject == []ContextsUnique /\ [][ContextIdsStable]_vars

\* one of two racing first saves has lost the race for the context row, and
\* a later save has updated the row in place
C8_Witness ==
  /\ returned.error = "project_contexts_user_project_unique"
  /\ \E c \in project_contexts : c.last_modified_at # Now(c.id)

\* C9: a step that leaves the fingerprint of a context row as it was leaves
\* every field of the row as it was
C9_EqualFingerprintRowStays ==
  [][\A c \in project_contexts :
       \A c2 \in project_contexts' :
         (c2.id = c.id /\ c2.context_hash = c.context_hash) => c2 = c]_vars

SnapshotRowsOf(ctxId) ==
  {n \in project_context_snapshots : n.project_context_id = ctxId}

\* C10: the snapshot versions of every context are exactly 1..K, K being the
\* number of snapshot rows of that context
C10_SnapshotVersionsAreOneToK ==
  \A ctxId \in {n.project_context_id : n \in project_context_snapshots} :
    /\ {n.snapshot_version : n \in SnapshotRowsOf(ctxId)}
         = 1..Cardinality(SnapshotRowsOf(ctxId))

\* a save has lost the race for a snapshot version of a context that has
\* two snapshots
C10_Witness ==
  /\ returned.error = "project_context_snapshots_context_version_unique"
  /\ \E n \in project_context_snapshots : n.snapshot_version = 2

\* the snapshot row the save in slot q has inserted holds the version the
\* save in slot p is about to insert under the same project context
TookVersionOf(q, p) ==
  \E n \in project_context_snapshots :
    /\ n.id = sv[q].snapshotId
    /\ n.project_context_id = sv[p].projectContextId
    /\ n.snapshot_version = sv[p].nextVersion

\* C11: snapshot creation never makes the surrounding save fail: of two
\* concurrent saves under the same (user, project) with different session
\* names, neither reaches its snapshot INSERT (lines 350-366, whose error
\* aborts the save) with the version number the other has already taken.
C11_SnapshotNeverFailsSave ==
  \A p \in Procs : \A q \in Procs \ {p} :
    (/\ sv[p].pc = "snapInsert"
     /\ sv[q].snapshotId # NoId
     /\ sv[q].error = "none"
     /\ sv[q].userId = sv[p].userId
     /\ sv[q].input.project_name = sv[p].input.project_name
     /\ sv[q].input.session_name # sv[p].input.session_name)
      => ~TookVersionOf(q, p)

ContextIdsOf(userId, project) ==
  {c.id : c \in ContextsOf(project_contexts, userId, project)}

\* the step in which a save obtains its snapshot: the row it gets belongs to
\* the context of its (user, project) and no row of that context has a
\* higher version
ObtainsHighestSnapshot ==
  \A p \in Procs :
    (sv[p].pc = "snapInsert" /\ sv'[p].pc = "readVersion")
      => \E n \in project_context_snapshots' :
           /\ n.id = sv'[p].snapshotId
           /\ n.project_context_id \in ContextIdsOf(sv[p].userId, sv[p].input.project_name)
           /\ n.snapshot_version =
                MaxSnapshotVersion(project_context_snapshots', n.project_context_id)

\* a session row, written or committed, references the snapshot its save
\* obtained, and that snapshot is one of the context of the row's own
\* (user, project name)
ReferencesOwnSnapshot ==
  /\ \A p \in Procs : \A r \in sv[p].txSessions :
       sv[p].error = "none" => r.snapshot_id = sv[p].snapshotId
  /\ \A s \in sessions :
       s.snapshot_id # NoId
         => \E n \in project_context_snapshots :
              /\ n.id = s.snapshot_id
              /\ n.project_context_id \in ContextIdsOf(s.user_id, s.project_name)

\* C12: the snapshot referenced by a committed session belongs to the project
\* context of that session's own (user, project name), and it was the
\* highest-version snapshot of that context when the save obtained it.
C12_SnapshotOfOwnContext == []ReferencesOwnSnapshot /\ [][ObtainsHighestSnapshot]_vars

\* a committed session references a snapshot of version 2 of its context
C12_Witness ==
  \E s \in sessions : \E n \in project_context_snapshots :
    /\ n.id = s.snapshot_id
    /\ n.snapshot_version = 2
    /\ n.project_context_id \in ContextIdsOf(s.user_id, s.project_name)

\* a result of the call resumeSession or listSessions
IsRead(r, call) == "call" \in DOMAIN r /\ r.call = call

\* the step is a return of resumeSession: it leaves every table as it is
ResumeStep ==
  returned' # returned /\ IsRead(returned', "resumeSession") /\ returned'.status = "resumed"

IsCandidates(out) == "matches" \in DOMAIN out

\* a candidate list carries no conversation and no file content
NoBodies(out) ==
  \A i \in DOMAIN out.matches :
    /\ DOMAIN out.matches[i] =
         {"session_id", "session_name", "project_name", "version", "files"}
    /\ out.matches[i].files \subseteq PathsOf(files, out.matches[i].session_id)

\* the candidates are exactly the rows of the exact lookup
CandidatesAre(out, rows) ==
  /\ Len(out.matches) = Cardinality(rows)
  /\ {out.matches[i].session_id : i \in DOMAIN out.matches} = {s.id : s \in rows}

\* with a project filter that finds rows the result is the hydrated session
\* of that project
HydratesFiltered(r, rows) ==
  (rows # {} /\ ~Falsy(r.input.project_name))
    => /\ ~IsCandidates(r.output)
       /\ r.output.project_name = r.input.project_name
       /\ r.output.session_id \in {s.id : s \in rows}

IsRoundTripOf(out, s, input) ==
  /\ out.session_name = input.session_name
  /\ out.project_name = input.project_name
  /\ out.version = s.version
  /\ Len(out.files) = Len(normalizedFiles(input))
  /\ {out.files[i] : i \in DOMAIN out.files} =
       {File(normalizedFiles(input)[i].path, normalizedFiles(input)[i].content) :
          i \in DOMAIN normalizedFiles(input)}
  /\ out.conversation =
       [i \in DOMAIN input.conversation |->
          Msg(input.conversation[i].role, input.conversation[i].content)]

C16_EveryMessageCountCommits ==
  /\ returned.error # "conversations_session_order_unique"
  /\ \A id \in DOMAIN committedInputs :
       /\ Cardinality(ConversationRowsOf(id)) = Len(committedInputs[id].input.conversation)
       /\ \A c, d \in ConversationRowsOf(id) : c # d => c.message_order # d.message_order

\* the summary is that of this project context row and its snapshots
IsSummaryOf(summary, pc) ==
  /\ summary # JUndefined
  /\ summary.id = pc.id
  /\ summary.tech_stack = pc.tech_stack
  /\ summary.programming_languages = pc.programming_languages
  /\ summary.project_type = (IF pc.project_type \in {NULL, ""} THEN "other"
                             ELSE pc.project_type)
  /\ summary.snapshot.version = MaxSnapshotVersion(project_context_snapshots, pc.id)

\* C17: for a session that was saved with a project context, the hydrated
\* resume result carries a project-context summary whose id, facts, languages
\* and project type are those of the project context of the session's own
\* (user, project name), with the snapshot part taken from that context's
\* snapshots.
C17_ResumeCarriesProjectContext ==
  [][(ResumeStep /\ ~IsCandidates(returned'.output))
       => \A s \in sessions :
            (s.id = returned'.output.session_id /\ s.snapshot_id # NoId)
              => \E pc \in ContextsOf(project_contexts, s.user_id, s.project_name) :
                   IsSummaryOf(returned'.output.project_context, pc)
    ]_vars

\* sub is a substring of text, the case of the letters put aside
ContainsIgnoringCase(text, sub) ==
  \E i \in 0..(Len(Chars(text)) - Len(Chars(sub))) :
    \A j \in 1..Len(Chars(sub)) :
      LowerChar(Chars(text)[i + j]) = LowerChar(Chars(sub)[j])

\* the candidates are rows of sessions, most recently updated first
MostRecentFirst(matches) ==
  \A i, j \in DOMAIN matches :
    i < j => \E s, o \in sessions :
               /\ s.id = matches[i].session_id
               /\ o.id = matches[j].session_id
               /\ UpdatedAt(s) >= UpdatedAt(o)

\* C18: when the exact lookup returns no row, resumeSession returns a
\* candidate list that contains only sessions of the requesting user whose
\* name contains the requested name as a case-insensitive substring (and, when
\* a project filter is given, whose project name contains the filter), ordered
\* most recently updated first, with at most 10 entries.
C18_FuzzyCandidatesContainName ==
  [][(ResumeStep /\ ExactMatches(sessions, returned'.userId, returned'.input) = {})
       => /\ IsCandidates(returned'.output)
          /\ Len(returned'.output.matches) <= FuzzyLimit
          /\ MostRecentFirst(returned'.output.matches)
          /\ \A i \in DOMAIN returned'.output.matches :
               \E s \in sessions :
                 /\ s.id = returned'.output.matches[i].session_id
                 /\ s.user_id = returned'.userId
                 /\ ContainsIgnoringCase(s.name, returned'.input.session_name)
                 /\ Falsy(returned'.input.project_name)
                      \/ ContainsIgnoringCase(s.project_name, returned'.input.project_name)
    ]_vars

\* the rows a user owns: the user's sessions, their files and conversations,
\* the user's project contexts and their snapshots
OwnSessions(userId) == {s \in sessions : s.user_id = userId}

OwnFiles(userId) ==
  {f \in files : f.session_id \in {s.id : s \in OwnSessions(userId)}}

OwnConversations(userId) ==
  {c \in conversations : c.session_id \in {s.id : s \in OwnSessions(userId)}}

OwnContexts(userId) == {c \in project_contexts : c.user_id = userId}

OwnSnapshots(userId) ==
  {n \in project_context_snapshots :
     n.project_context_id \in {c.id : c \in OwnContexts(userId)}}

\* the results the call of r can give on a store that holds the rows of its
\* caller and no row of any other user
ResultsOnOwnRows(r) ==
  IF r.call = "resumeSession"
  THEN resumeSession(OwnSessions(r.userId), OwnFiles(r.userId), OwnConversations(r.userId),
                     OwnContexts(r.userId), OwnSnapshots(r.userId), r.userId, r.input)
  ELSE listSessions(OwnSessions(r.userId), OwnFiles(r.userId), r.userId, r.input)

\* the results the call of r can give on the store as it is
ResultsOnAllRows(r) ==
  IF r.call = "resumeSession"
  THEN resumeSession(sessions, files, conversations, project_contexts,
                     project_context_snapshots, r.userId, r.input)
  ELSE listSessions(sessions, files, r.userId, r.input)

\* the step is a return of resumeSession or listSessions with a result
ReadStep ==
  returned' # returned /\ "call" \in DOMAIN returned' /\ returned'.error = "none"

\* the result is one the call gives on the rows of its caller alone, and the
\* rows of the other users change nothing in what the call can give
UnaffectedByOthers(out, onAllRows, onOwnRows) == out \in onOwnRows /\ onAllRows = onOwnRows

\* C19: no result of resumeSession (hydrated session, ambiguous candidates or
\* fuzzy candidates) or of listSessions called as A contains a row owned by
\* another user B, even when B owns sessions with the same session name and
\* project name, and the result for A is the same whatever rows B owns: the
\* call returns what it returns on a store that holds the rows of A alone.
C19_ReadsSeeOwnRowsOnly ==
  [][ReadStep => UnaffectedByOthers(returned'.output, ResultsOnAllRows(returned'),
                                    ResultsOnOwnRows(returned'))]_vars

\* u1 has resumed its session "axb" of project "pa" while u2 owns a session
\* of the same name and project
C19_Witness ==
  /\ IsRead(returned, "resumeSession")
  /\ returned.status = "resumed"
  /\ returned.userId = "u1"
  /\ ~IsCandidates(returned.output)
  /\ KeyOf("u1", returned.output) = <<"u1", "axb", "pa">>
  /\ \E s \in sessions : KeyOfRow(s) = <<"u2", "axb", "pa">>

\* the uniqueness conflicts of a save: the version already taken for the key
\* by a concurrent save, two files with the same path in one session
SaveConflicts == {"sessions_user_name_project_version_unique", "files_session_path_unique"}

\* C20: a uniqueness conflict during a save (the version already taken for the
\* key by a concurrent save, or two files with the same path in one session)
\* is reported to the caller as a conflict outcome that differs from the
\* outcome of every other store failure, and the failed save leaves no
\* session, file or conversation row.
C20_ConflictOutcomeForConflictsOnly ==
  ("call" \notin DOMAIN returned /\ returned.status = "error")
    => /\ SaveErrorCode(returned.error) = "DUPLICATE_SESSION"
            <=> returned.error \in SaveConflicts
       /\ \A s \in sessions : s.id # returned.id
       /\ FileRowsOf(returned.id) = {}
       /\ ConversationRowsOf(returned.id) = {}

\* the call with this id is still failing with this error, waiting for its
\* ROLLBACK
StillFailed(s, id, error) ==
  \E q \in Procs :
    s[q].id = id /\ s[q].error = error /\ s[q].pc \in {"ctxRollback", "rollback"}

\* a store failure is the failure of the statement a call is waiting for
FailureIsThrown ==
  nFailures' # nFailures
    => \E p \in Procs : sv[p].pc # "idle" /\ StillFailed(sv', sv[p].id, "store_failure")

\* an INSERT of a version that is taken for the key, when the store does not
\* fail it for a reason of its own, is the failure of its save
ConflictIsThrown ==
  \A p \in Procs :
    (/\ sv[p].pc = "insertSession"
     /\ nFailures' = nFailures
     /\ ~SessionUniqueOk(sessions \cup sv[p].txSessions, NewSessionRow(sv[p]))
     /\ \E q \in Procs : sv'[q].id = sv[p].id /\ sv'[q].pc # "insertSession")
      => StillFailed(sv', sv[p].id, "sessions_user_name_project_version_unique")

\* a call that has failed runs no further statement: it stays as it is until
\* its error is handed to the caller, the tables being left as they are
FailedIsReturned ==
  \A p \in Procs :
    sv[p].error # "none"
      => \/ StillFailed(sv', sv[p].id, sv[p].error)
         \/ /\ returned' = Result(sv[p].id, "error", 0, sv[p].error)
            /\ UNCHANGED tables

\* the version is read once per call: a call comes to the read from the
\* snapshot INSERT or from its start, never from a later statement
VersionReadOnce ==
  \A p, q \in Procs :
    (sv'[q].id = sv[p].id /\ sv[p].pc # "idle" /\ sv'[q].pc = "readVersion")
      => sv[p].pc \in {"snapInsert", "readVersion"}

\* C21: saveSession makes exactly one attempt: after a store failure of any
\* kind (uniqueness conflict, connection error, timeout) the engine neither
\* re-reads the version nor re-runs the transaction, and the failure is
\* returned to the caller.
C21_OneAttemptPerSave ==
  [][FailureIsThrown /\ ConflictIsThrown /\ FailedIsReturned /\ VersionReadOnce]_vars

\* a save has lost the race for its version and the conflict has been returned
C21_Witness ==
  /\ "call" \notin DOMAIN returned
  /\ returned.status = "error"
  /\ returned.error = "sessions_user_name_project_version_unique"
  /\ nFailures = 0

\* a saveSession call that was given no user id and has not ended
AuthlessSave(s) == s.pc # "idle" /\ s.userId = "" /\ s.error \in {"none", "auth"}

\* such a call runs no statement but the ones up to the test of the user id,
\* writes nothing, fails with the authentication error and ends with it
SaveNeedsUser ==
  \A p \in Procs :
    AuthlessSave(sv[p])
      => /\ UNCHANGED tables
         /\ sv[p].pc \in {"readVersion", "rollback"}
         /\ \/ sv'[p] = sv[p]
            \/ sv[p].pc = "readVersion" /\ sv'[p] = Thrown(sv[p], "rollback", "auth")
            \/ /\ sv[p].pc = "rollback"
               /\ sv'[p] = Idle
               /\ returned' = Result(sv[p].id, "error", 0, "auth")

\* resumeSession and listSessions without a user id return the
\* authentication error and nothing else, and write nothing
ReadNeedsUser ==
  (returned' # returned /\ "call" \in DOMAIN returned' /\ returned'.userId = "")
    => /\ returned'.status = "error"
       /\ returned'.error = "auth"
       /\ returned'.output = << >>
       /\ UNCHANGED <<tables, sv>>

\* C22: called with a missing or empty userId, each of saveSession,
\* resumeSession and listSessions fails with an authentication error, writes
\* no row to any table (no session, file, conversation, project context or
\* snapshot), and is not retried.
C22_NoUserNoRows ==
  /\ [][SaveNeedsUser /\ ReadNeedsUser]_vars
  /\ [](/\ \A s \in sessions : s.user_id # ""
        /\ \A c \in project_contexts : c.user_id # "")

\* a save without user id has returned the authentication error while the
\* store holds a session of another call
C22_Witness ==
  /\ "call" \notin DOMAIN returned
  /\ returned.error = "auth"
  /\ sessions # {}

\* the caller owns no session whose name is like the requested name (and
\* whose project is like the project filter)
NoSessionLike(userId, input) ==
  \A s \in sessions :
    ~(/\ s.user_id = userId
      /\ ILikeAround(s.name, input.session_name)
      /\ Falsy(input.project_name) \/ ILikeAround(s.project_name, input.project_name))

\* the caller owns no session that passes the filters of the list
NoSessionListed(userId, input) ==
  \A s \in sessions :
    ~(/\ s.user_id = userId
      /\ Falsy(input.project_name) \/ ILikeAround(s.project_name, input.project_name)
      /\ Falsy(input.file_path)
           \/ \E f \in FileRowsOf(s.id) : ILikeAround(f.path, input.file_path))

\* the step is a return of resumeSession or listSessions to a caller that
\* gave its user id
ReadReturns(call) ==
  returned' # returned /\ IsRead(returned', call) /\ returned'.userId # ""

\* C23: when nothing matches, resumeSession returns an empty candidate list
\* and listSessions returns an empty page with total 0; neither raises an
\* error.
C23_NothingMatchesIsEmpty ==
  [][/\ (ReadReturns("resumeSession") /\ NoSessionLike(returned'.userId, returned'.input))
          => /\ returned'.error = "none"
             /\ returned'.output = [matches |-> << >>]
     /\ (ReadReturns("listSessions") /\ NoSessionListed(returned'.userId, returned'.input))
          => /\ returned'.error = "none"
             /\ returned'.output.sessions = << >>
             /\ returned'.output.total = 0
    ]_vars

\* a resume has returned the empty candidate list to a user who owns sessions
C23_Witness ==
  /\ IsRead(returned, "resumeSession")
  /\ returned.status = "resumed"
  /\ returned.output = [matches |-> << >>]
  /\ \E s \in sessions : s.user_id = returned.userId

\* the last (at most ten) messages of a conversation
LastTen(conv) ==
  [i \in 1..(IF Len(conv) > 10 THEN 10 ELSE Len(conv)) |->
     conv[i + (IF Len(conv) > 10 THEN Len(conv) - 10 ELSE 0)]]

\* the file rows a save of this input has to write: for an empty file list
\* one row whose content holds the last messages and the metadata, otherwise
\* the rows of the supplied files and no other
FilesAsClaimed(rows, input) ==
  IF input.files = << >>
  THEN /\ Cardinality(rows) = 1
       /\ \A f \in rows :
            /\ ~IsText(f.content)
            /\ f.content.messages = LastTen(input.conversation)
            /\ f.content.metadata = input.description
  ELSE {File(f.path, f.content) : f \in rows} = {input.files[i] : i \in DOMAIN input.files}

\* C24: a save with an empty or absent file list stores exactly one file,
\* whose content contains the last (at most 10) conversation messages and the
\* supplied metadata; a save with a non-empty file list stores exactly the
\* supplied files and no synthesized one; every committed session has at least
\* one file.  The rows a save has written before its COMMIT are held to the
\* same.
C24_EmptyFileListGetsSummary ==
  /\ \A id \in DOMAIN committedInputs :
       /\ FilesAsClaimed(FileRowsOf(id), committedInputs[id].input)
       /\ FileRowsOf(id) # {}
  /\ \A p \in Procs :
       (sv[p].error = "none" /\ sv[p].pc \in {"insertConversation", "commit"})
         => FilesAsClaimed(sv[p].txFiles, sv[p].input)

\* a save without files and with one message is committed, and a save without
\* files and with eleven messages has written its file
C24_Witness ==
  /\ \E id \in DOMAIN committedInputs :
       /\ committedInputs[id].input.files = << >>
       /\ committedInputs[id].input.conversation = OneMessage
  /\ \E p \in Procs :
       /\ sv[p].pc = "insertConversation"
       /\ sv[p].input.files = << >>
       /\ Len(sv[p].input.conversation) = 11

\* a step in which a save commits, and the id of its session
SaveCommits == DOMAIN committedInputs' # DOMAIN committedInputs

CommittedId == CHOOSE id \in DOMAIN committedInputs' : id \notin DOMAIN committedInputs

ReturnedAsStored(id) ==
  \E row \in sessions' :
    /\ row.id = id
    /\ \A o \in sessions' : o.id = id => o = row
    /\ returned'.id = id
    /\ returned'.error = "none"
    /\ returned'.version = row.version
    /\ returned'.status \in {"saved", "versioned"}
    /\ (returned'.status = "saved") <=> (row.version = 1)
    /\ (row.version = 1) <=>
         ~\E o \in sessions' : KeyOfRow(o) = KeyOfRow(row) /\ o.version < row.version

\* C25: a committed saveSession returns the version stored on the new session
\* row, with status "saved" exactly when that version is 1 (no earlier version
\* exists for the key) and status "versioned" otherwise.
C25_StatusTellsFirstVersion == [][SaveCommits => ReturnedAsStored(CommittedId)]_vars

\* one save has returned "saved" and a later save of the same key "versioned"
C25_Witness ==
  /\ returned.status = "versioned"
  /\ returned.version = 2
  /\ \E r \in sessions : r.id = returned.id /\ r.version = 2
  /\ \E r \in sessions : r.id # returned.id /\ r.version = 1

\* the sessions of the user whose project name and file paths contain the
\* filters that are given
ListMatching(userId, input) ==
  {s \in sessions :
     /\ s.user_id = userId
     /\ Falsy(input.project_name) \/ ContainsIgnoringCase(s.project_name, input.project_name)
     /\ Falsy(input.file_path)
          \/ \E f \in FileRowsOf(s.id) : ContainsIgnoringCase(f.path, input.file_path)}

PageLength(n, limit, offset) ==
  IF offset >= n THEN 0 ELSE IF n - offset < limit THEN n - offset ELSE limit

\* the sessions that are not on the page or before it were updated no later
\* than the ones on it
PageOf(page, matching, offset) ==
  /\ \A i \in DOMAIN page : \E s \in matching : s.id = page[i].session_id
  /\ \A i, j \in DOMAIN page : i # j => page[i].session_id # page[j].session_id
  /\ MostRecentFirst(page)
  /\ \A i \in DOMAIN page :
       Cardinality({s \in matching :
                      \E o \in matching : o.id = page[i].session_id /\ UpdatedAt(s) > UpdatedAt(o)})
         <= offset + i - 1

\* C26: listSessions returns only sessions of userId that satisfy the given
\* project-name and file-path substring filters, at most limit of them starting
\* at offset in most-recently-updated order, and total equals the number of all
\* sessions that match the filters, independent of limit and offset.
C26_ListIsFilteredPage ==
  [][(ReadReturns("listSessions") /\ returned'.error = "none")
       => LET input == returned'.input
              matching == ListMatching(returned'.userId, input)
          IN  /\ returned'.output.total = Cardinality(matching)
              /\ Len(returned'.output.sessions)
                   = PageLength(Cardinality(matching), input.limit, input.offset)
              /\ PageOf(returned'.output.sessions, matching, input.offset)
    ]_vars

\* every row of the table before the step is in it after the step, and no
\* added row takes the place (a function of the rows) of one that was there
OnlyAdded(before, after, place) ==
  /\ before \subseteq after
  /\ \A r \in after \ before : \A o \in before : place[o] # place[r]

\* C27: saveSession only adds session, file and conversation rows: every
\* session, file and conversation row that existed before a save (including
\* earlier versions of the same key) is unchanged after it, whether the save
\* commits or fails.
C27_SaveOnlyAddsRows ==
  [][/\ OnlyAdded(sessions, sessions', [r \in sessions' |-> r.id])
     /\ OnlyAdded(files, files', [f \in files' |-> <<f.session_id, f.path>>])
     /\ OnlyAdded(conversations, conversations',
                  [c \in conversations' |-> <<c.session_id, c.message_order>>])]_vars

\* version 1 of a key is still stored, with its files, next to version 2, and
\* the last save has failed
C27_Witness ==
  /\ returned.error # "none"
  /\ \E r, o \in sessions :
       /\ KeyOfRow(r) = KeyOfRow(o)
       /\ r.version = 1 /\ o.version = 2
       /\ FileRowsOf(r.id) # {}
       /\ r.id \in DOMAIN committedInputs
       /\ FilesAsClaimed(FileRowsOf(r.id), committedInputs[r.id].input)

\* two JSON values with the same content: objects with the same property
\* names and the same value under each name, in whatever order
RECURSIVE SameJson(_, _)
SameJson(a, b) ==
  CASE a.t = "obj" /\ b.t = "obj" ->
         /\ {a.o[i][1] : i \in DOMAIN a.o} = {b.o[i][1] : i \in DOMAIN b.o}
         /\ Len(a.o) = Len(b.o)
         /\ \A i \in DOMAIN a.o : SameJson(a.o[i][2], ObjGet(b.o, a.o[i][1]))
    [] a.t = "arr" /\ b.t = "arr" ->
         /\ Len(a.a) = Len(b.a)
         /\ \A i \in DOMAIN a.a : SameJson(a.a[i], b.a[i])
    [] OTHER -> a = b

\* C28: calculateContextHash is deterministic and independent of key order:
\* two facts records with the same keys and the same values, built in
\* different key orders, get the same fingerprint.
C28_FingerprintIgnoresKeyOrder ==
  IsRead(returned, "calculateContextHash")
    => \A other \in HashInputs :
         SameJson(JObj(returned.input), JObj(other))
           => calculateContextHash(other) = returned.output

\* a record of four properties was fingerprinted, one of them an object, and
\* the same record exists with its properties in another order
C28_Witness ==
  /\ IsRead(returned, "calculateContextHash")
  /\ Len(returned.input) = 4
  /\ ObjGet(returned.input, "tsconfig").t = "obj"
  /\ \E other \in HashInputs :
       /\ SameJson(JObj(returned.input), JObj(other))
       /\ ObjKeys(other) # ObjKeys(returned.input)
       /\ ObjGet(other, "tsconfig") # ObjGet(returned.input, "tsconfig")

\* schema.ts line 431: the values project_contexts_project_type_valid admits
ProjectTypeValid ==
  {"web-app", "cli-tool", "api-service", "library", "mobile-app", "desktop-app", "other"}

\* the list without its i-th file
WithoutFile(fileList, i) ==
  [j \in 1..(Len(fileList) - 1) |-> IF j < i THEN fileList[j] ELSE fileList[j + 1]]

\* a package.json or tsconfig.json whose content is no JSON document, or is
\* the document null
Malformed(file) ==
  /\ file.path \in {"package.json", "tsconfig.json"}
  /\ JSONparse(file.content).t \in {"invalid", "null"}

\* a file detectTechStack looks into: a script, a Python source or a manifest
Recognised(file) ==
  \/ Ext(file.path) \in {"ts", "tsx", "js", "jsx", "py"}
  \/ file.path \in {"package.json", "tsconfig.json", "requirements.txt", "Cargo.toml",
                    "go.mod"}

\* the second detection found nothing the first did not find, but for the
\* tsconfig property that a null tsconfig.json leaves behind
NothingGained(with, without) ==
  /\ with.project_type = without.project_type
  /\ with.programming_languages = without.programming_languages
  /\ with.build_system = without.build_system
  /\ with.test_framework = without.test_framework
  /\ \A k \in {with.tech_stack[i][1] : i \in DOMAIN with.tech_stack} \ {"tsconfig"} :
       /\ ObjHas(without.tech_stack, k)
       /\ ObjGet(without.tech_stack, k) = ObjGet(with.tech_stack, k)
  /\ \A k \in {without.tech_stack[i][1] : i \in DOMAIN without.tech_stack} :
       ObjHas(with.tech_stack, k)

\* C29: detectTechStack never raises for any file list and always returns a
\* project type from the seven allowed values: malformed package.json or
\* tsconfig.json content only reduces what is detected, and a file list with
\* no recognised file yields no languages and project type "other".
C29_DetectionIsTotal ==
  IsRead(returned, "detectTechStack")
    => /\ returned.error = "none"
       /\ returned.output.project_type \in ProjectTypeValid
       /\ \A i \in DOMAIN returned.input :
            Malformed(returned.input[i])
              => NothingGained(returned.output,
                               detectTechStack(WithoutFile(returned.input, i)))
       /\ (\A i \in DOMAIN returned.input : ~Recognised(returned.input[i]))
            => /\ returned.output.programming_languages = << >>
               /\ returned.output.project_type = "other"

\* a script was read next to a package.json that is no JSON document
C29_Witness ==
  /\ IsRead(returned, "detectTechStack")
  /\ \E i, j \in DOMAIN returned.input :
       /\ returned.input[i] = File("package.json", Text("not_json"))
       /\ returned.input[j] = File("a.ts", Text("src_react"))
  /\ returned.output.project_type = "web-app"

\* the project type a file gives when it is read on its own, "other" when it
\* gives none
TypeSetBy(file) == DetectFile(DetectInit, file).project_type

\* the places of the files of the list that give a project type
Signals(fileList) == {i \in DOMAIN fileList : TypeSetBy(fileList[i]) # "other"}

IsManifest(file) ==
  file.path \in {"package.json", "requirements.txt", "Cargo.toml", "go.mod"}

ScriptOrPython(languages) ==
  \E i \in DOMAIN languages : languages[i] \in {"typescript", "javascript", "python"}

\* C30: in detectTechStack a project type derived from a manifest
\* (package.json, requirements.txt, Cargo.toml, go.mod) is never replaced by
\* the language-only default: the default cli-tool for a JavaScript/TypeScript
\* or Python project is returned only when no other signal set a type.
C30_DefaultOnlyWithoutSignal ==
  IsRead(returned, "detectTechStack")
    => LET fileList == returned.input
           out == returned.output
       IN  IF Signals(fileList) # {}
           THEN out.project_type = TypeSetBy(fileList[Max(Signals(fileList))])
           ELSE out.project_type =
                  IF ScriptOrPython(out.programming_languages) THEN "cli-tool" ELSE "other"

\* a package.json gave api-service and the script read after it gave no type
C30_Witness ==
  /\ IsRead(returned, "detectTechStack")
  /\ returned.input = <<File("package.json", Text("pkg_express")),
                        File("a.ts", Text("src_plain"))>>
  /\ IsManifest(returned.input[1])
  /\ Signals(returned.input) = {1}
  /\ returned.output.programming_languages = <<"typescript">>
  /\ returned.output.project_type = "api-service"

\* the input of the save that wrote the snapshot with this id, for a save
\* that has committed or is under way
SaveInputs(id) ==
  {committedInputs[i].input : i \in DOMAIN committedInputs \cap {id}}
    \cup {sv[p].input : p \in {q \in Procs : sv[q].id = id /\ sv[q].error = "none"}}

\* a path of the fixed set, a documentation file or a JSON file with "config"
\* in its path
KeyPath(path) ==
  \/ path \in {"package.json", "tsconfig.json", "requirements.txt", "Cargo.toml", "go.mod",
               "README.md", ".gitignore", "Dockerfile", "docker-compose.yml"}
  \/ path \in {"notes.MD", "CONVERSATION_SUMMARY.md"}
  \/ path \in {"app.config.json"}

\* the stored content is that of a saved file of the path: the original up
\* to the limit, its first 10,000 characters and the marker above it
KeyFileOf(entry, saved) ==
  \E i \in DOMAIN saved :
    /\ saved[i].path = entry.path
    /\ entry.content =
         IF ContentLength(saved[i].content) <= 10000 THEN saved[i].content
         ELSE [first |-> 10000, of |-> saved[i].content, then |-> "..."]

\* C31: every key file stored in a snapshot is a file whose path is in the
\* fixed recognised set, or whose extension is the documentation extension, or
\* a JSON file whose path contains "config"; its stored content is the original
\* when that is at most 10,000 characters long and otherwise the first 10,000
\* characters followed by the truncation marker.
C31_KeyFilesAreKeyAndBounded ==
  \A n \in project_context_snapshots :
    \A input \in SaveInputs(n.id) :
      \A i \in DOMAIN n.key_files :
        /\ KeyPath(n.key_files[i].path)
        /\ KeyFileOf(n.key_files[i], normalizedFiles(input))

\* a snapshot holds a truncated key file and another one of exactly the
\* limit, and the save had a JSON file that is no key file
C31_Witness ==
  \E n \in project_context_snapshots :
    /\ n.id \in DOMAIN committedInputs
    /\ \E i, j \in DOMAIN n.key_files :
         /\ n.key_files[i].content = [first |-> 10000, of |-> Text("doc_10001"), then |-> "..."]
         /\ n.key_files[j].content = Text("doc_10000")
    /\ \E k \in DOMAIN committedInputs[n.id].input.files :
         committedInputs[n.id].input.files[k].path = "data.json"

\* the header carries the token, with or without the Bearer scheme
CarriesToken(header, token) == header.present /\ header.value = token

\* the step starts a save or returns from a resume or a list
OperationRuns ==
  \/ nSaves' # nSaves
  \/ returned' # returned /\ "call" \in DOMAIN returned'

\* the step is one the demo server takes in token mode for a request with
\* this header, the server being configured with this token
TokenModeStep(token, header) ==
  \/ \E input \in DemoSaveInputs : DemoSave("token", token, header, input)
  \/ \E input \in DemoResumeInputs : DemoResume("token", token, header, input)
  \/ \E input \in DemoListInputs : DemoList("token", token, header, input)

\* C32: in token mode the demo server runs a save, resume or list operation
\* only for a request that carries the Authorization header with the
\* configured demo token; a request with no Authorization header, or with
\* another token, is rejected without running the operation.
C32_TokenModeNeedsToken ==
  [][\A token \in DemoTokens : \A header \in DemoHeaders :
       (TokenModeStep(token, header) /\ OperationRuns) => CarriesToken(header, token)]_vars

\* C33: for two committed saves under the same (user, session name, project
\* name) key, the save that commits first has the smaller version, and the
\* version given to a save is greater than every version committed under that
\* key before the save started.  Rows are never removed, so both follow from
\* every save committing a version above all that are committed for its key.
C33_VersionsFollowCommitOrder ==
  [][SaveCommits
       => \A row \in sessions' :
            row.id = CommittedId
              => /\ row \notin sessions
                 /\ \A o \in sessions :
                      KeyOfRow(o) = KeyOfRow(row) => o.version < row.version]_vars

\* the save that started first has committed second: it holds version 2, the
\* save that started after it version 1
C33_Witness ==
  \E r, o \in sessions :
    /\ KeyOfRow(r) = KeyOfRow(o)
    /\ r.id \in DOMAIN committedInputs /\ o.id \in DOMAIN committedInputs
    /\ r.id < o.id
    /\ r.version = 2 /\ o.version = 1

\* the call holds the connection of its transaction and its next step waits
\* for a further one
WaitsHolding(p) == sv[p].pc # "idle" /\ Waits(p)

\* C34: a save never waits for a pooled connection while it holds one: with a
\* pool of P connections, P concurrent saves cannot reach a state in which
\* each holds its transaction connection and all of them wait for a further
\* connection.
C34_NoSaveWaitsHoldingConnection ==
  /\ \A p \in Procs : ~WaitsHolding(p)
  /\ ~(Cardinality(Procs) = PoolSize /\ \A p \in Procs : WaitsHolding(p))

\* C35: DatabaseConnection.transaction commits only when the callback
\* completes without error; when the callback or the commit fails it issues a
\* rollback and then re-raises that same failure to the caller.
C35_RollbackThenSameFailure ==
  \A p \in Procs :
    /\ sv[p].committed > 0 => sv[p].callback = "completed"
    /\ (sv[p].pc = "ended" /\ sv[p].failure \in {"callback", "commit"})
         => /\ sv[p].rollbacks = 1
            /\ sv[p].committed = 0
            /\ sv[p].raised = sv[p].failure

\* C36: every connection obtained by DatabaseConnection.transaction is
\* released exactly once on every path (commit, callback failure, commit
\* failure, rollback failure), so when all calls have finished no connection
\* is still checked out.
C36_ReleasedExactlyOnce ==
  /\ \A p \in Procs :
       /\ sv[p].released <= sv[p].obtained
       /\ sv[p].held = sv[p].obtained - sv[p].released
       /\ sv[p].pc = "ended" => sv[p].released = sv[p].obtained
  /\ (\A p \in Procs : sv[p].pc \in {"idle", "ended"})
       => \A p \in Procs : sv[p].held = 0

\* one call has ended after its ROLLBACK was rejected and another after its
\* COMMIT, each having released the connection it had obtained
C36_Witness ==
  \E p, q \in Procs :
    /\ sv[p].pc = "ended" /\ sv[p].raised = "rollback" /\ sv[p].failure = "commit"
    /\ sv[p].obtained = 1 /\ sv[p].released = 1
    /\ sv[q].pc = "ended" /\ sv[q].committed = 1 /\ sv[q].released = 1


\* the snapshot rows that carry the id generated for this save
SnapshotsOfSave(rows, id) == {n \in rows : n.id = id}

\* the step of the INSERT INTO sessions: the trigger has added no project
\* context and no snapshot to the transaction, and the row keeps the
\* snapshot_id the application passed, which is the one snapshot of this save
TriggerAddsNothing ==
  \A p \in Procs :
    (sv[p].pc = "insertSession" /\ sv'[p].pc = "insertFile")
      => /\ sv'[p].txContexts = {}
         /\ sv'[p].txSnapshots = {}
         /\ \A r \in sv'[p].txSessions : r.snapshot_id = sv[p].snapshotId
         /\ \E n \in project_context_snapshots :
              /\ SnapshotsOfSave(project_context_snapshots, sv[p].id) = {n}
              /\ n.id = sv[p].snapshotId
              /\ n.key_files = keyFiles(normalizedFiles(sv[p].input))
              /\ n.snapshot_reason = sv[p].snapshotReason

\* the committing step of a save: it adds no project context and no
\* snapshot, the store holds one snapshot of this save and the stored session
\* references it
OneSnapshotPerSave ==
  SaveCommits =>
    /\ project_contexts' = project_contexts
    /\ project_context_snapshots' = project_context_snapshots
    /\ Cardinality(SnapshotsOfSave(project_context_snapshots', CommittedId)) = 1
    /\ \A r \in sessions' :
         r.id = CommittedId
           => \E n \in SnapshotsOfSave(project_context_snapshots', CommittedId) :
                r.snapshot_id = n.id

\* C37: for one save, the application code and the BEFORE INSERT trigger on
\* sessions together create exactly one snapshot: the trigger creates neither
\* a second project context nor a second snapshot, and the snapshot reference
\* of the stored session is the one written by the application.
C37_TriggerCreatesNothing == [][TriggerAddsNothing /\ OneSnapshotPerSave]_vars

\* two sessions are stored, each referencing the snapshot of its own save, and
\* the store holds two snapshots and one project context
C37_Witness ==
  /\ Cardinality(sessions) = 2
  /\ \A s \in sessions : s.snapshot_id = s.id
  /\ Cardinality(project_context_snapshots) = 2
  /\ Cardinality(project_contexts) = 1


\* the file list with the files at places i and j exchanged
Exchanged(fileList, i, j) ==
  [k \in DOMAIN fileList |->
     IF k = i THEN fileList[j] ELSE IF k = j THEN fileList[i] ELSE fileList[k]]

\* the members of a sequence
Members(seq) == {seq[i] : i \in DOMAIN seq}

\* two results of detectTechStack give the same facts; the languages are
\* compared as a set
SameFacts(a, b) ==
  /\ a.project_type = b.project_type
  /\ Members(a.programming_languages) = Members(b.programming_languages)
  /\ a.build_system = b.build_system
  /\ a.test_framework = b.test_framework
  /\ calculateContextHash(a.tech_stack) = calculateContextHash(b.tech_stack)

\* C38: the result of detectTechStack does not depend on the order of the
\* files: every permutation of the same file list gives the same project
\* type, languages, build system, test framework and fingerprint.  Every
\* permutation is a product of exchanges of two places.
C38_OrderOfFilesIrrelevant ==
  IsRead(returned, "detectTechStack")
    => \A i, j \in DOMAIN returned.input :
         SameFacts(returned.output, detectTechStack(Exchanged(returned.input, i, j)))


\* the sessions whose referenced snapshot is a snapshot of this project context
SessionsOfContext(ctxId) ==
  {s \in sessions :
     \E n \in project_context_snapshots :
       n.id = s.snapshot_id /\ n.project_context_id = ctxId}

\* C39: getSessionsByProjectContext(c) returns exactly the sessions whose
\* referenced snapshot belongs to project context c, newest first and at most
\* limit of them, with total equal to the number of all such sessions.
C39_SessionsOfProjectContext ==
  \A c \in project_contexts :
    (/\ IsRead(returned, "getSessionsByProjectContext")
     /\ returned.input.projectContextId = Uuid("project_contexts", c.id))
      => LET out == returned.output
             page == \E o \in OrderByUpdatedAtDesc(SessionsOfContext(c.id)) :
                       LET rows == LimitOffset(o, returned.input.limit, returned.input.offset)
                       IN  /\ Len(out.sessions) = Len(rows)
                           /\ \A i \in DOMAIN rows : out.sessions[i].session_id = rows[i].id
         IN  /\ page
             /\ Len(out.sessions) <= returned.input.limit
             /\ out.total = Cardinality(SessionsOfContext(c.id))


Tools == {"context.save", "context.resume", "context.list"}

\* the outcome of a handler
IsTool(r) == "call" \in DOMAIN r /\ r.call \in Tools

\* the codes a handler may give to a failure that is no schema violation
FailureCodes ==
  {"DUPLICATE_SESSION", "SIZE_LIMIT_EXCEEDED", "SESSION_NOT_FOUND", "INTERNAL_ERROR"}

\* the error object of a handler: VALIDATION_ERROR exactly for input the
\* schema of the tool refuses, and one of the four other codes otherwise.  The
\* save that fails in the session manager had passed the schema.
ErrorIsCoded ==
  (IsTool(returned) /\ returned.status = "error")
    => IF returned.args # ArgsOfThrown /\ ~SchemaOk(returned.call, returned.args)
       THEN returned.error = "VALIDATION_ERROR"
       ELSE returned.error \in FailureCodes

\* a call with input the schema accepts and without user_id: the handler
\* returns its own error and the session manager has not been called, so no
\* save has been started and the error is not the session manager's
MissingUserIsRefused ==
  \A tool \in Tools :
    (/\ returned' # returned
     /\ IsTool(returned') /\ returned'.call = tool
     /\ returned'.args # ArgsOfThrown
     /\ SchemaOk(tool, returned'.args)
     /\ returned'.args.user_id = "")
      => /\ returned'.status = "error"
         /\ returned'.error \in FailureCodes
         /\ returned'.message = ThrownMessage(MissingUserId)
         /\ sv' = sv /\ nSaves' = nSaves

\* a save is only ever under way for a user id that is given and an input
\* the schema accepts
SavesPassedGate ==
  \A p \in Procs :
    sv[p].pc \notin {"idle", "ctxRollback", "rollback"}
      => /\ sv[p].userId # ""
         /\ \E auth_token \in ToolTokens :
              SaveContextSchemaOk(ToolArgs(auth_token, sv[p].userId, sv[p].input))

\* C40: the context.save, context.resume and context.list handlers never
\* throw: every failure is returned as an error object whose code is
\* VALIDATION_ERROR for a schema violation and otherwise one of
\* DUPLICATE_SESSION, SIZE_LIMIT_EXCEEDED, SESSION_NOT_FOUND or INTERNAL_ERROR,
\* and a missing user_id is reported as an error before the session manager
\* is called.
C40_FailuresAreErrorObjects ==
  [](ErrorIsCoded /\ SavesPassedGate) /\ [][MissingUserIsRefused]_vars

\* a save refused by the unique constraint on file paths has been returned as
\* DUPLICATE_SESSION
C40_Witness ==
  /\ IsTool(returned) /\ returned.call = "context.save"
  /\ returned.error = "DUPLICATE_SESSION"
  /\ returned.message = ErrorMessage("files_session_path_unique")

====
